---- MODULE Spec2Model ----
(***************************************************************************)
(* Verification Execution Engine of tools/verify_issue.py:                 *)
(* command corrector, command classifier, check runner, pattern resolver,  *)
(* dependency gate, orchestrator (verify_issue), evidence store and the    *)
(* batch drivers (main, verify_lane).                                      *)
(*                                                                         *)
(* Strings are TLA+ strings; TLC evaluates Len, SubSeq and \o on them, so  *)
(* commands and outputs are modelled character by character.               *)
(***************************************************************************)
EXTENDS Integers, Sequences, FiniteSets, TLC

(***************************************************************************)
(* Strings                                                                 *)
(***************************************************************************)
Char(s, i) == SubSeq(s, i, i)

\* x in s (Python's substring test)
Contains(sub, s) ==
    \E i \in 1..(Len(s) - Len(sub) + 1) : SubSeq(s, i, i + Len(sub) - 1) = sub

\* s[:n]
Truncate(s, n) == IF Len(s) <= n THEN s ELSE SubSeq(s, 1, n)

RECURSIVE Repeat(_, _)
Repeat(c, n) ==
    IF n <= 0 THEN ""
    ELSE IF n % 2 = 0 THEN LET half == Repeat(c, n \div 2) IN half \o half
    ELSE c \o Repeat(c, n - 1)

\* index of the first occurrence of sub in s at or after position from, 0 if none
RECURSIVE FindFrom(_, _, _)
FindFrom(sub, s, from) ==
    IF from + Len(sub) - 1 > Len(s) THEN 0
    ELSE IF SubSeq(s, from, from + Len(sub) - 1) = sub THEN from
    ELSE FindFrom(sub, s, from + 1)

\* str.replace(old, new), old non-empty
RECURSIVE StrReplace(_, _, _)
StrReplace(s, old, new) ==
    LET i == FindFrom(old, s, 1) IN
    IF Len(old) = 0 \/ i = 0 THEN s
    ELSE SubSeq(s, 1, i - 1) \o new
         \o StrReplace(SubSeq(s, i + Len(old), Len(s)), old, new)

\* str.rstrip('/')
RECURSIVE RStripSlash(_)
RStripSlash(s) ==
    IF Len(s) > 0 /\ Char(s, Len(s)) = "/" THEN RStripSlash(SubSeq(s, 1, Len(s) - 1))
    ELSE s

LowerAlpha == {"a","b","c","d","e","f","g","h","i","j","k","l","m",
               "n","o","p","q","r","s","t","u","v","w","x","y","z"}
UpperAlpha == {"A","B","C","D","E","F","G","H","I","J","K","L","M",
               "N","O","P","Q","R","S","T","U","V","W","X","Y","Z"}
LowerOf == [c \in UpperAlpha |->
    CASE c = "A" -> "a" [] c = "B" -> "b" [] c = "C" -> "c" [] c = "D" -> "d"
      [] c = "E" -> "e" [] c = "F" -> "f" [] c = "G" -> "g" [] c = "H" -> "h"
      [] c = "I" -> "i" [] c = "J" -> "j" [] c = "K" -> "k" [] c = "L" -> "l"
      [] c = "M" -> "m" [] c = "N" -> "n" [] c = "O" -> "o" [] c = "P" -> "p"
      [] c = "Q" -> "q" [] c = "R" -> "r" [] c = "S" -> "s" [] c = "T" -> "t"
      [] c = "U" -> "u" [] c = "V" -> "v" [] c = "W" -> "w" [] c = "X" -> "x"
      [] c = "Y" -> "y" [] c = "Z" -> "z"]
UpperOf == [c \in LowerAlpha |-> CHOOSE u \in UpperAlpha : LowerOf[u] = c]

\* str.lower() and str.upper()
RECURSIVE Lower(_)
Lower(s) ==
    IF Len(s) = 0 THEN ""
    ELSE (IF Char(s, 1) \in UpperAlpha THEN LowerOf[Char(s, 1)] ELSE Char(s, 1))
         \o Lower(SubSeq(s, 2, Len(s)))
RECURSIVE Upper(_)
Upper(s) ==
    IF Len(s) = 0 THEN ""
    ELSE (IF Char(s, 1) \in LowerAlpha THEN UpperOf[Char(s, 1)] ELSE Char(s, 1))
         \o Upper(SubSeq(s, 2, Len(s)))

(***************************************************************************)
(* Regular expressions (the subset of Python's re the tool uses).          *)
(* A pattern is a tree; ReMatch returns, in the backtracking engine's      *)
(* preference order, every way the pattern matches at a position:          *)
(* [pos |-> position after the match, g |-> captured groups].  The head    *)
(* of that sequence is the match Python reports.                           *)
(***************************************************************************)
WhiteSpace == {" ", "\t", "\n", "\r"}

ReLit(str)     == [t |-> "lit", s |-> str]
ReSet(chars)   == [t |-> "set", cs |-> chars, neg |-> FALSE]
ReNot(chars)   == [t |-> "set", cs |-> chars, neg |-> TRUE]
ReSeq(parts)   == [t |-> "seq", rs |-> parts]
ReAlt(parts)   == [t |-> "alt", rs |-> parts]
ReStar(r)      == [t |-> "rep", r |-> r, min |-> 0]
RePlus(r)      == [t |-> "rep", r |-> r, min |-> 1]
ReOpt(r)       == [t |-> "opt", r |-> r]
ReGroup(n, r)  == [t |-> "grp", n |-> n, r |-> r]
ReEnd          == [t |-> "end"]
ReSpace        == ReSet(WhiteSpace)
ReNonSpace     == ReNot(WhiteSpace)
ReAny          == ReNot({"\n"})

NoGroups == [n \in 1..2 |-> ""]

RECURSIVE ReMatch(_, _, _)
RECURSIVE ReMatchSeq(_, _, _, _)
RECURSIVE ReMatchAlt(_, _, _, _)
RECURSIVE ReMatchRep(_, _, _)
RECURSIVE ReEach(_, _, _, _)

\* every match of r at state st, preferred first
ReMatch(r, s, st) ==
    CASE r.t = "lit" ->
           IF st.pos + Len(r.s) - 1 <= Len(s) /\ SubSeq(s, st.pos, st.pos + Len(r.s) - 1) = r.s
           THEN << [st EXCEPT !.pos = st.pos + Len(r.s)] >> ELSE << >>
      [] r.t = "set" ->
           IF st.pos <= Len(s) /\ ((Char(s, st.pos) \in r.cs) # r.neg)
           THEN << [st EXCEPT !.pos = st.pos + 1] >> ELSE << >>
      [] r.t = "end" ->
           IF st.pos = Len(s) + 1 \/ (st.pos = Len(s) /\ Char(s, st.pos) = "\n")
           THEN << st >> ELSE << >>
      [] r.t = "seq" -> ReMatchSeq(r.rs, 1, s, st)
      [] r.t = "alt" -> ReMatchAlt(r.rs, 1, s, st)
      [] r.t = "opt" -> ReMatch(r.r, s, st) \o << st >>
      [] r.t = "rep" ->
           IF r.min = 0 THEN ReMatchRep(r.r, s, st)
           ELSE ReEach(ReMatch(r.r, s, st), 1, r.r, s)
      [] r.t = "grp" ->
           LET inner == ReMatch(r.r, s, st) IN
           [k \in 1..Len(inner) |->
               [inner[k] EXCEPT !.g[r.n] = SubSeq(s, st.pos, inner[k].pos - 1)]]

\* parts k.. of a concatenation
ReMatchSeq(parts, k, s, st) ==
    IF k > Len(parts) THEN << st >>
    ELSE LET first == ReMatch(parts[k], s, st)
             RECURSIVE Rest(_)
             Rest(j) == IF j > Len(first) THEN << >>
                        ELSE ReMatchSeq(parts, k + 1, s, first[j]) \o Rest(j + 1)
         IN Rest(1)

\* alternatives k.. of an alternation, left to right
ReMatchAlt(parts, k, s, st) ==
    IF k > Len(parts) THEN << >>
    ELSE ReMatch(parts[k], s, st) \o ReMatchAlt(parts, k + 1, s, st)

\* greedy r*: one more r first, the empty match last
ReMatchRep(r, s, st) ==
    LET once == SelectSeq(ReMatch(r, s, st), LAMBDA x : x.pos > st.pos)
    IN ReEach(once, 1, r, s) \o << st >>

ReEach(states, j, r, s) ==
    IF j > Len(states) THEN << >>
    ELSE ReMatchRep(r, s, states[j]) \o ReEach(states, j + 1, r, s)

\* re.search from position from: [found, start, pos, g]
RECURSIVE ReSearchFrom(_, _, _)
ReSearchFrom(r, s, from) ==
    IF from > Len(s) + 1 THEN [found |-> FALSE, start |-> 0, pos |-> 0, g |-> NoGroups]
    ELSE LET ms == ReMatch(r, s, [pos |-> from, g |-> NoGroups]) IN
         IF Len(ms) > 0
         THEN [found |-> TRUE, start |-> from, pos |-> ms[1].pos, g |-> ms[1].g]
         ELSE ReSearchFrom(r, s, from + 1)

ReSearch(r, s) == ReSearchFrom(r, s, 1)

\* a replacement template: literal text and group references (\1, \2)
Text(str) == [grp |-> 0, s |-> str]
Ref(n)    == [grp |-> n, s |-> ""]
RECURSIVE Expand(_, _)
Expand(repl, g) ==
    IF Len(repl) = 0 THEN ""
    ELSE (IF Head(repl).grp = 0 THEN Head(repl).s ELSE g[Head(repl).grp])
         \o Expand(Tail(repl), g)

\* re.sub(r, repl, s, count): count = 0 replaces every match
RECURSIVE ReSubFrom(_, _, _, _, _)
ReSubFrom(r, repl, s, from, count) ==
    LET m == ReSearchFrom(r, s, from) IN
    IF ~m.found THEN SubSeq(s, from, Len(s))
    ELSE SubSeq(s, from, m.start - 1) \o Expand(repl, m.g)
         \o (IF count = 1 THEN SubSeq(s, m.pos, Len(s))
             ELSE IF m.pos > m.start THEN ReSubFrom(r, repl, s, m.pos, count - 1)
             ELSE SubSeq(s, m.pos, Len(s)))

ReSub(r, repl, s, count) == ReSubFrom(r, repl, s, 1, count)


(***************************************************************************)
(* Command Corrector                                                       *)
(***************************************************************************)
\* test\s+-[flags]\s+
ReTest(flags) == ReSeq(<< ReLit("test"), RePlus(ReSpace), ReLit("-"), ReSet(flags),
                          RePlus(ReSpace) >>)
\* \s*&&\s*echo\s+"?PASS"?
ReEchoPass == ReSeq(<< ReStar(ReSpace), ReLit("&&"), ReStar(ReSpace), ReLit("echo"),
                       RePlus(ReSpace), ReOpt(ReLit("\"")), ReLit("PASS"),
                       ReOpt(ReLit("\"")) >>)
\* .*&&\s*echo\s+"?PASS"?
ReAnyEchoPass == ReSeq(<< ReStar(ReAny), ReLit("&&"), ReStar(ReSpace), ReLit("echo"),
                          RePlus(ReSpace), ReOpt(ReLit("\"")), ReLit("PASS"),
                          ReOpt(ReLit("\"")) >>)
\* git\s+ls-files\s+--error-unmatch\s+
ReGitLsFiles == ReSeq(<< ReLit("git"), RePlus(ReSpace), ReLit("ls-files"), RePlus(ReSpace),
                         ReLit("--error-unmatch"), RePlus(ReSpace) >>)
\* (\S*\*\S*)
ReWildPath == ReGroup(1, ReSeq(<< ReStar(ReNonSpace), ReLit("*"), ReStar(ReNonSpace) >>))
\* /?(\S*)<[a-z_-]+>(\S*)
RePlaceholderPath ==
    ReSeq(<< ReOpt(ReLit("/")), ReGroup(1, ReStar(ReNonSpace)), ReLit("<"),
             RePlus(ReSet(LowerAlpha \cup {"_", "-"})), ReLit(">"),
             ReGroup(2, ReStar(ReNonSpace)) >>)

\* r'test\s+-f\s+(\S+/)\s*&&'
dir_pattern ==
    ReSeq(<< ReTest({"f"}), ReGroup(1, ReSeq(<< RePlus(ReNonSpace), ReLit("/") >>)),
             ReStar(ReSpace), ReLit("&&") >>)
\* r'test\s+-[fdse]\s+(\S*\*\S*)\s*&&\s*echo\s+"?PASS"?'
wildcard_pattern == ReSeq(<< ReTest({"f", "d", "s", "e"}), ReWildPath, ReEchoPass >>)
\* r'git\s+ls-files\s+--error-unmatch\s+(\S*\*\S*)'
git_wildcard_pattern == ReSeq(<< ReGitLsFiles, ReWildPath >>)
\* r'test\s+-([fd])\s+#\s*(\S+)'
comment_pattern ==
    ReSeq(<< ReLit("test"), RePlus(ReSpace), ReLit("-"), ReGroup(1, ReSet({"f", "d"})),
             RePlus(ReSpace), ReLit("#"), ReStar(ReSpace),
             ReGroup(2, RePlus(ReNonSpace)) >>)
\* r'test\s+-[fdse]\s+/?(\S*)<[a-z_-]+>(\S*)'
placeholder_pattern == ReSeq(<< ReTest({"f", "d", "s", "e"}), RePlaceholderPath >>)
\* r'git\s+ls-files\s+--error-unmatch\s+/?(\S*)<[a-z_-]+>(\S*)'
git_placeholder_pattern == ReSeq(<< ReGitLsFiles, RePlaceholderPath >>)
\* r'test\s+-[fd]\s+(ls|cat|grep|find)\s+'
multi_cmd_pattern ==
    ReSeq(<< ReTest({"f", "d"}),
             ReGroup(1, ReAlt(<< ReLit("ls"), ReLit("cat"), ReLit("grep"), ReLit("find") >>)),
             RePlus(ReSpace) >>)
\* r'test\s+-([fd])\s+/([A-Za-z])'
abs_path_pattern ==
    ReSeq(<< ReLit("test"), RePlus(ReSpace), ReLit("-"), ReGroup(1, ReSet({"f", "d"})),
             RePlus(ReSpace), ReLit("/"), ReGroup(2, ReSet(LowerAlpha \cup UpperAlpha)) >>)
\* r'test\s+-[fd]\s+wc\s+-l\s+'
wc_pattern ==
    ReSeq(<< ReTest({"f", "d"}), ReLit("wc"), RePlus(ReSpace), ReLit("-l"),
             RePlus(ReSpace) >>)

\* "; ".join(notes)
RECURSIVE JoinNotes(_)
JoinNotes(notes) ==
    IF Len(notes) = 0 THEN ""
    ELSE IF Len(notes) = 1 THEN notes[1]
    ELSE notes[1] \o "; " \o JoinNotes(Tail(notes))

\* one repair rule: [cmd, notes] -> [cmd, notes]
Rule1(c) ==
    IF ReSearch(dir_pattern, c.cmd).found
    THEN [cmd   |-> ReSub(ReSeq(<< ReTest({"f"}),
                                   ReGroup(1, ReSeq(<< RePlus(ReNonSpace), ReLit("/") >>)) >>),
                          << Text("test -d "), Ref(1) >>, c.cmd, 0),
          notes |-> Append(c.notes, "Changed -f to -d for directory path")]
    ELSE c
Rule2(c) ==
    LET m == ReSearch(wildcard_pattern, c.cmd) IN
    IF m.found
    THEN [cmd   |-> ReSub(wildcard_pattern,
                          << Text("ls " \o m.g[1] \o " >/dev/null 2>&1 && echo \"PASS\"") >>,
                          c.cmd, 0),
          notes |-> Append(c.notes, "Converted wildcard test to ls command")]
    ELSE c
Rule2b(c) ==
    LET m == ReSearch(git_wildcard_pattern, c.cmd) IN
    IF m.found
    THEN [cmd   |-> ReSub(ReSeq(<< git_wildcard_pattern, ReAnyEchoPass >>),
                          << Text("ls " \o m.g[1] \o " >/dev/null 2>&1 && echo \"PASS\"") >>,
                          c.cmd, 0),
          notes |-> Append(c.notes, "Converted git ls-files wildcard to ls command")]
    ELSE c
Rule3(c) ==
    IF ReSearch(comment_pattern, c.cmd).found
    THEN [cmd   |-> ReSub(comment_pattern, << Text("test -"), Ref(1), Text(" "), Ref(2) >>,
                          c.cmd, 0),
          notes |-> Append(c.notes, "Removed comment character from path")]
    ELSE c
Rule4(c) ==
    LET m == ReSearch(placeholder_pattern, c.cmd)
        parent_path == RStripSlash(m.g[1])
    IN
    IF m.found /\ parent_path # ""
    THEN [cmd   |-> ReSub(ReSeq(<< placeholder_pattern, ReEchoPass >>),
                          << Text("test -d " \o parent_path \o "/ && echo \"PASS\"") >>,
                          c.cmd, 0),
          notes |-> Append(c.notes, "Replaced placeholder with parent directory test: "
                                    \o parent_path \o "/")]
    ELSE c
Rule4b(c) ==
    LET m == ReSearch(git_placeholder_pattern, c.cmd)
        parent_path == RStripSlash(m.g[1])
    IN
    IF m.found /\ parent_path # ""
    THEN [cmd   |-> ReSub(ReSeq(<< git_placeholder_pattern, ReAnyEchoPass >>),
                          << Text("ls " \o parent_path \o "/ >/dev/null 2>&1 && echo \"PASS\"") >>,
                          c.cmd, 0),
          notes |-> Append(c.notes, "Replaced git ls-files placeholder with ls: "
                                    \o parent_path \o "/")]
    ELSE c
Rule5(c) ==
    IF ReSearch(multi_cmd_pattern, c.cmd).found
    THEN [cmd   |-> ReSub(ReTest({"f", "d"}), << >>, c.cmd, 1),
          notes |-> Append(c.notes, "Removed incorrect test wrapper from command")]
    ELSE c
Rule6(c) ==
    IF ReSearch(abs_path_pattern, c.cmd).found
    THEN [cmd   |-> ReSub(abs_path_pattern, << Text("test -"), Ref(1), Text(" "), Ref(2) >>,
                          c.cmd, 0),
          notes |-> Append(c.notes, "Converted absolute path to relative")]
    ELSE c
Rule7(c) ==
    IF ReSearch(wc_pattern, c.cmd).found
    THEN [cmd   |-> ReSub(ReTest({"f", "d"}), << >>, c.cmd, 1),
          notes |-> Append(c.notes, "Removed incorrect test wrapper from wc command")]
    ELSE c

\* lines 166-169: (corrected_command, was_corrected, correction_note)
Correction(command, c) ==
    [corrected     |-> c.cmd,
     was_corrected |-> c.cmd # command,
     note          |-> JoinNotes(c.notes)]

auto_correct_command(command) ==
    Correction(command,
               Rule7(Rule6(Rule5(Rule4b(Rule4(Rule3(Rule2b(Rule2(Rule1(
                   [cmd |-> command, notes |-> << >>]))))))))))

(***************************************************************************)
(* Command Classifier                                                      *)
(***************************************************************************)
\* MALFORMED_PATTERNS, in order: <<pattern, reason>>
MALFORMED_PATTERNS == <<
    \* r'test\s+-[efds]\s+(ls|cat|grep|find|echo|test|python|python3)\s'
    << ReSeq(<< ReTest({"e", "f", "d", "s"}),
               ReGroup(1, ReAlt(<< ReLit("ls"), ReLit("cat"), ReLit("grep"), ReLit("find"),
                                   ReLit("echo"), ReLit("test"), ReLit("python"),
                                   ReLit("python3") >>)),
               ReSpace >>),
       "Shell command used as file path" >>,
    \* r'<[a-z_-]+>'
    << ReSeq(<< ReLit("<"), RePlus(ReSet(LowerAlpha \cup {"_", "-"})), ReLit(">") >>),
       "Unsubstituted template variable" >>,
    \* r'\{[a-z_]+\}'
    << ReSeq(<< ReLit("{"), RePlus(ReSet(LowerAlpha \cup {"_"})), ReLit("}") >>),
       "Unsubstituted template placeholder" >>,
    \* r'test\s+-f\s+\S+/$'
    << ReSeq(<< ReTest({"f"}), RePlus(ReNonSpace), ReLit("/"), ReEnd >>),
       "Using -f on directory path (should be -d)" >> >>

\* r'test\s+-[efds]\s+(\S+)'
test_path_pattern == ReSeq(<< ReTest({"e", "f", "d", "s"}), ReGroup(1, RePlus(ReNonSpace)) >>)

\* path.split('/')[0], path.split()[0]: the text before the first separator
BeforeFirst(sep, path) ==
    LET i == FindFrom(sep, path, 1) IN IF i = 0 THEN path ELSE SubSeq(path, 1, i - 1)

\* the first MALFORMED_PATTERNS entry at or after k that the command matches, 0 if none
RECURSIVE FirstMalformedPattern(_, _)
FirstMalformedPattern(command, k) ==
    IF k > Len(MALFORMED_PATTERNS) THEN 0
    ELSE IF ReSearch(MALFORMED_PATTERNS[k][1], command).found THEN k
    ELSE FirstMalformedPattern(command, k + 1)

\* (is_malformed, reason)
is_malformed_command(command) ==
    LET k          == FirstMalformedPattern(command, 1)
        m          == ReSearch(test_path_pattern, command)
        path       == m.g[1]
        first_word == IF Contains("/", path) THEN BeforeFirst("/", path)
                      ELSE IF Contains(" ", path) THEN BeforeFirst(" ", path)
                      ELSE path
    IN
    IF k # 0 THEN [malformed |-> TRUE, reason |-> MALFORMED_PATTERNS[k][2]]
    ELSE IF Contains("test -", command) /\ m.found
    THEN IF Contains(" ", path) /\ Char(path, 1) # "\""
         THEN [malformed |-> TRUE, reason |-> "Path contains unquoted spaces"]
         ELSE IF Lower(first_word) \in {"ls", "cat", "grep", "find", "echo", "test", "python",
                                     "python3", "wc"}
         THEN [malformed |-> TRUE,
               reason    |-> "Path starts with shell command '" \o first_word \o "'"]
         ELSE [malformed |-> FALSE, reason |-> ""]
    ELSE [malformed |-> FALSE, reason |-> ""]

(***************************************************************************)
(* Floating point: Python's float is the IEEE-754 double, 53 significant   *)
(* bits.  A positive double is [a, b, c, e]: the significand is            *)
(* a * 2^48 + b * 2^24 + c with 16 <= a < 32 (the top 5 bits) and b, c     *)
(* below 2^24, and e is the binary exponent of its top bit.  Division and  *)
(* multiplication round to nearest, ties to even.                          *)
(***************************************************************************)
RECURSIVE Pow2(_)
Pow2(n) == IF n <= 0 THEN 1 ELSE 2 * Pow2(n - 1)

Limb == Pow2(24)

\* the double nearest to the exact value ([a, b, c] + guard/2 + sticky) * 2^..
RoundToDouble(a, b, c, e, guard, sticky) ==
    LET up == guard = 1 /\ (sticky \/ c % 2 = 1) IN
    IF ~up THEN [a |-> a, b |-> b, c |-> c, e |-> e]
    ELSE IF c + 1 < Limb THEN [a |-> a, b |-> b, c |-> c + 1, e |-> e]
    ELSE IF b + 1 < Limb THEN [a |-> a, b |-> b + 1, c |-> 0, e |-> e]
    ELSE IF a + 1 < 32 THEN [a |-> a + 1, b |-> 0, c |-> 0, e |-> e]
    ELSE [a |-> 16, b |-> 0, c |-> 0, e |-> e + 1]

\* float(p) / float(t) for integers 0 < p, 0 < t < 2^18: binary long division
RECURSIVE FloatDivNorm(_, _, _)
FloatDivNorm(r, t, e) ==
    IF r >= 2 * t THEN FloatDivNorm(r, 2 * t, e + 1)
    ELSE IF r < t THEN FloatDivNorm(2 * r, t, e - 1)
    ELSE LET a  == (r * 16) \div t
             r1 == (r * 16) % t
             b1 == (r1 * 4096) \div t
             r2 == (r1 * 4096) % t
             b2 == (r2 * 4096) \div t
             r3 == (r2 * 4096) % t
             c1 == (r3 * 4096) \div t
             r4 == (r3 * 4096) % t
             c2 == (r4 * 4096) \div t
             r5 == (r4 * 4096) % t
         IN RoundToDouble(a, b1 * 4096 + b2, c1 * 4096 + c2, e,
                          (2 * r5) \div t, (2 * r5) % t # 0)

\* d * 100.0
FloatMul100(d) ==
    LET pc   == d.c * 100
        pb   == d.b * 100 + pc \div Limb
        pa   == d.a * 100 + pb \div Limb
        lowc == pc % Limb
        lowb == pb % Limb
        drop == IF pa >= 2048 THEN 7 ELSE 6      \* bits beyond the 53 kept
        k    == Pow2(drop)
        up   == Pow2(24 - drop)
        lost == lowc % k
    IN RoundToDouble(pa \div k,
                     lowb \div k + (pa % k) * up,
                     lowc \div k + (lowb % k) * up,
                     d.e + drop,
                     lost \div (k \div 2), lost % (k \div 2) # 0)

\* int(d) for a positive double below 2^28
FloatToInt(d) ==
    IF d.e < 0 THEN 0
    ELSE IF d.e <= 4 THEN d.a \div Pow2(4 - d.e)
    ELSE d.a * Pow2(d.e - 4) + d.b \div Pow2(28 - d.e)

\* int((passed_count / len(check_results) * 100)) if check_results else 0
Confidence(passed_count, total) ==
    IF total = 0 \/ passed_count = 0 THEN 0
    ELSE FloatToInt(FloatMul100(FloatDivNorm(passed_count, total, 0)))

(***************************************************************************)
(* Data: issue files, pattern catalog, shell                               *)
(***************************************************************************)
\* a YAML value read with dict.get: the key is missing, null, or a string
Str(v)  == [k |-> "str", v |-> v]
Missing == [k |-> "missing", v |-> ""]
Null    == [k |-> "null", v |-> ""]
\* dict.get(key, default)
Get(hv, default) == IF hv.k = "missing" THEN Str(default) ELSE hv

\* an optional integer of a YAML mapping
IntVal(n) == [k |-> "int", n |-> n]
NoInt  == [k |-> "missing", n |-> 0]
GetInt(hv, default) == IF hv.k = "missing" THEN default ELSE hv.n

EVIDENCE_DIR == "LogBook/verification/evidence"

\* the issue files of lane G; G-02 is named by depends_on lists but has no file
IssueIds == {"G-00", "G-01"}
Depths   == {"QUICK", "STANDARD", "DEEP"}

\* one "# Check N: name" entry of the Verification Commands block
CheckSpec(label, name, command) == [check |-> label, name |-> name, command |-> command]

\* what extract_expected_outputs returns: None (no block, or a YAML error), a
\* falsy value (an empty block), a value that is no mapping (a YAML list), or a
\* mapping; has_results tells whether it has the key expected_results, results
\* maps check_N to [exit_code, stdout_contains], each key optional
ExpNone   == [k |-> "none",   has_results |-> FALSE, results |-> << >>]
ExpEmpty  == [k |-> "empty",  has_results |-> FALSE, results |-> << >>]
ExpNonMap == [k |-> "nonmap", has_results |-> FALSE, results |-> << >>]
ExpMap(results) == [k |-> "map", has_results |-> TRUE, results |-> results]
ExpEntry(code, out) == [exit_code |-> code, stdout_contains |-> out]

\* the content of an issue file.  kind: "absent" (no file), "unreadable" (open
\* fails), "noheader" (parse_frontmatter finds no frontmatter, or an empty one),
\* "scalar" (the frontmatter parses to a value that is no mapping), "ok".
\* date_verified is the day the header gives under that key (days since the
\* epoch of the clock), verification_confidence the value under that key
IssueFile(kind, status, deps, cmds, expected, pattern, fmdepth, paths) ==
    [kind |-> kind, status |-> status, depends_on |-> deps, cmds |-> cmds,
     expected |-> expected, verification_pattern |-> pattern,
     verification_depth |-> fmdepth, lane |-> Str("G"), target_paths |-> paths,
     date_verified |-> NoInt, verification_confidence |-> NoInt]

CmdDir         == "test -f config/ && echo PASS"
CmdGood        == "test -f README.md && echo PASS"
CmdPlaceholder == "test -f <brick-id>/status.yaml && echo PASS"
CmdShellPath   == "test -e ls/foo && echo PASS"
CmdKill        == "kill -INT $$"

\* commands of the form "test -<flag> <path><tail>" for the Corrector and the
\* Classifier: directory paths, placeholders, a path with a blank, a path
\* under a directory named like a shell command
CommandInputs ==
    [flag : {"f", "e"},
     path : {"config/", "README.md", "a/<brick-id>/s.yaml", "<BRICK_ID>/status.yaml",
             "{file_path}", "docs/{issue-id}.md", "my file.txt", "ls/foo", "dir*/",
                    "# config/"},
     tail : {" && echo PASS", "", " || echo FAIL"}]
CommandText(inp) == "test -" \o inp.flag \o " " \o inp.path \o inp.tail

NoCmds      == << >>
BadOnly     == << CheckSpec("Check 1", "brick status", CmdPlaceholder) >>
OneCmd      == << CheckSpec("Check 1", "config dir", CmdDir) >>
BadThenGood == << CheckSpec("Check 1", "brick status", CmdPlaceholder),
                  CheckSpec("Check 2", "readme", CmdGood) >>
TwoCmds     == << CheckSpec("Check 1", "readme", CmdGood),
                  CheckSpec("Check 2", "signal", CmdKill) >>
GoodThenBad == << CheckSpec("Check 1", "readme", CmdGood),
                  CheckSpec("Check 2", "ls path", CmdShellPath) >>

ExpFail      == ExpMap("check_1" :> ExpEntry(IntVal(1), Str("FAIL")))
ExpDefaults  == ExpMap("check_2" :> ExpEntry(NoInt, Missing))
ExpNoResults == [k |-> "map", has_results |-> FALSE, results |-> << >>]

OnePath == << "docs/README.md" >>

\* G-00 when it is not the issue under study: a file without frontmatter
DefaultDep == IssueFile("noheader", Str("OPEN"), << >>, BadOnly, ExpNone, Missing, Missing, OnePath)

\* G-01 with embedded checks and dependencies on G-00 (G-00 is varied with these)
DependentRecords ==
    { IssueFile("ok", Str("OPEN"), deps, OneCmd, ExpNone, Missing, Missing, OnePath) :
          deps \in {<< "G-00" >>, << "G-00", "G-02" >>} }

\* G-01 with embedded checks
EmbeddedRecords ==
    { IssueFile(kind, Str("OPEN"), << >>, OneCmd, ExpNone, Missing, Missing, OnePath) :
          kind \in {"absent", "unreadable", "noheader", "scalar"} }
    \cup { IssueFile("ok", Str("OPEN"), deps, OneCmd, ExpNone, Missing, Missing, OnePath) :
          deps \in {<< >>, << "G-02" >>} }
    \cup { IssueFile("ok", Str("OPEN"), << >>, cmds, ExpNone, Missing, Missing, OnePath) :
          cmds \in {BadThenGood, GoodThenBad, TwoCmds} }
    \cup { IssueFile("ok", Str("OPEN"), << >>, OneCmd, exp, Missing, Missing, OnePath) :
          exp \in {ExpEmpty, ExpNonMap, ExpFail, ExpDefaults, ExpNoResults} }

\* G-01 without embedded checks (the catalog is varied with these)
PatternRecords ==
    { IssueFile("ok", Str("OPEN"), << >>, NoCmds, ExpNone, Missing, Missing, OnePath),
      IssueFile("ok", Str("OPEN"), << "G-02" >>, NoCmds, ExpNone, Missing, Missing, OnePath),
      IssueFile("ok", Str("OPEN"), << >>, NoCmds, ExpNone, Str("no_such_pattern"), Missing, OnePath),
      IssueFile("ok", Str("OPEN"), << "G-02" >>, NoCmds, ExpNone, Str("no_such_pattern"), Missing, OnePath),
      IssueFile("ok", Str("OPEN"), << >>, NoCmds, ExpNone, Missing, Str("QUICK"), OnePath),
      IssueFile("ok", Str("OPEN"), << >>, NoCmds, ExpNone, Missing, Missing, << >>) }

\* G-00 as a dependency: its one check is malformed, so verifying it runs nothing
DepRecords ==
    { IssueFile(kind, Str("OPEN"), << >>, BadOnly, ExpNone, Missing, Missing, OnePath) :
          kind \in {"absent", "unreadable", "noheader", "scalar"} }
    \cup { IssueFile("ok", st, << >>, BadOnly, ExpNone, Missing, Missing, OnePath) :
          st \in {Str("OPEN"), Str("RESOLVED"), Str("Resolved"), Null, Missing} }

\* one check template of the pattern catalog
Template(name, command, expected_exit, failure_message) ==
    [name |-> name, command |-> command, expected_exit |-> expected_exit,
     failure_message |-> failure_message]

MissingFileChecks ==
    << Template("file_exists", "test -f {file_path}", NoInt, Str("File is missing")),
       Template("mentions_issue", "grep -q {issue_id} {file_path}", IntVal(0), Missing) >>

\* the content of tools/verification_patterns.yaml.  kind: "missing" (no file),
\* "empty" (yaml.safe_load returns None), "ok" (a mapping)
Catalog(kind, patterns, depth_levels) ==
    [kind |-> kind, patterns |-> patterns, depth_levels |-> depth_levels]
DepthPolicy == ("QUICK" :> {"existence"})
               @@ ("STANDARD" :> {"existence", "content_validation"})
Catalogs ==
    { Catalog("missing", << >>, << >>),
      Catalog("empty", << >>, << >>),
      Catalog("ok", "missing_file" :> MissingFileChecks, DepthPolicy),
      Catalog("ok", "missing_file" :> MissingFileChecks, << >>) }

\* a catalog whose policy for DEEP permits the existence checks alone
DeepOnlyCatalog == Catalog("ok", "missing_file" :> MissingFileChecks, "DEEP" :> {"existence"})

\* what the shell does with a command: it exits with a status, is killed by a
\* signal, outlives the timeout, or cannot be started
OutputLimit == 500
Behaviours ==
    { [how |-> "exit", n |-> 0, out |-> "PASS\n"],
      [how |-> "exit", n |-> 0, out |-> "ok\n"],
      [how |-> "exit", n |-> 0, out |-> Repeat("x", OutputLimit - 2) \o "PASS"],
      [how |-> "exit", n |-> 1, out |-> "FAIL\n"],
      [how |-> "exit", n |-> 1, out |-> "PASS (partial)\n"],
      [how |-> "signal", n |-> 2, out |-> ""],
      [how |-> "timeout", n |-> 0, out |-> ""] }

(***************************************************************************)
(* Check Runner                                                            *)
(***************************************************************************)
RunFailureExit == -1
MalformedExit  == -2

\* (returncode, stdout + stderr): subprocess.run reports a child killed by
\* signal N as returncode -N
run_command(b) ==
    CASE b.how = "exit"    -> [code |-> b.n, output |-> b.out]
      [] b.how = "signal"  -> [code |-> 0 - b.n, output |-> b.out]
      [] b.how = "timeout" -> [code |-> RunFailureExit, output |-> "Command timed out"]
      [] b.how = "oserror" -> [code |-> RunFailureExit, output |-> b.out]

\* one call of run_command, as runLog keeps it: the command, what the shell
\* did with it, and the pair run_command returned
Ran(command, how, run) ==
    [command |-> command, how |-> how, code |-> run.code, output |-> run.output]

(***************************************************************************)
(* Check results.  site tells which statement built the entry; the keys a  *)
(* site does not set read as None / False (dict.get).                      *)
(***************************************************************************)
CheckResult(site, name, command, corrected, note, expected, actual, output, passed, error, malformed, auto) ==
    [site |-> site, name |-> name, command |-> command, corrected_command |-> corrected,
     correction_note |-> note, expected |-> expected, actual |-> actual,
     output |-> output, passed |-> passed, error |-> error, malformed |-> malformed,
     was_auto_corrected |-> auto]

\* MalformedResult with the Check Runner's failure code as exit code
MalformedResult_AsRunFailure(cmd_spec, reason) ==
    CheckResult("malformed", cmd_spec.name, cmd_spec.command, Missing, Missing, 0,
                RunFailureExit, "MALFORMED COMMAND: " \o reason, FALSE,
                "Malformed command detected: " \o reason, TRUE, FALSE)

MalformedResult(cmd_spec, reason) ==
    CheckResult("malformed", cmd_spec.name, cmd_spec.command, Missing, Missing, 0,
                MalformedExit, "MALFORMED COMMAND: " \o reason, FALSE,
                "Malformed command detected: " \o reason, TRUE, FALSE)

\* EmbeddedPassed with a fallback rule that looks at the output alone
EmbeddedPassed_IgnoresExit(expected_outputs, cmd_spec, actual_exit, output) ==
    IF expected_outputs.k = "nonmap" THEN [raised |-> TRUE, passed |-> FALSE]
    ELSE [raised |-> FALSE, passed |-> Contains("PASS", output)]

\* the pass rule of an embedded check: [raised, passed]
EmbeddedPassed(expected_outputs, cmd_spec, actual_exit, output) ==
    IF expected_outputs.k \in {"none", "empty"}
    THEN [raised |-> FALSE, passed |-> actual_exit = 0 /\ Contains("PASS", output)]
    ELSE IF expected_outputs.k = "nonmap"
    THEN [raised |-> TRUE, passed |-> FALSE]
    ELSE LET check_num == StrReplace(cmd_spec.check, "Check ", "check_")
             has       == check_num \in DOMAIN expected_outputs.results
             expected_exit ==
                 IF has THEN GetInt(expected_outputs.results[check_num].exit_code, 0)
                 ELSE 0
             expected_stdout ==
                 IF has THEN Get(expected_outputs.results[check_num].stdout_contains, "PASS")
                 ELSE Str("PASS")
         IN IF actual_exit # expected_exit THEN [raised |-> FALSE, passed |-> FALSE]
            ELSE IF expected_stdout.k # "str" THEN [raised |-> TRUE, passed |-> FALSE]
            ELSE [raised |-> FALSE, passed |-> Contains(expected_stdout.v, output)]

\* ExecutedResult that records the executed form under 'command'
ExecutedResult_RecordsExecuted(cmd_spec, fix, run, passed) ==
    CheckResult("embedded", cmd_spec.name, fix.corrected,
                IF fix.was_corrected THEN Str(fix.corrected) ELSE Null,
                IF fix.was_corrected THEN Str(fix.note) ELSE Null,
                0, run.code, Truncate(run.output, OutputLimit), passed,
                IF passed THEN "" ELSE "Check failed", FALSE, fix.was_corrected)

ExecutedResult(cmd_spec, fix, run, passed) ==
    CheckResult("embedded", cmd_spec.name, cmd_spec.command,
                IF fix.was_corrected THEN Str(fix.corrected) ELSE Null,
                IF fix.was_corrected THEN Str(fix.note) ELSE Null,
                0, run.code, Truncate(run.output, OutputLimit), passed,
                IF passed THEN "" ELSE "Check failed", FALSE, fix.was_corrected)

DependencyResult(unresolved_deps) ==
    CheckResult("dependency", "dependency_check", "check_dependencies", Missing, Missing,
                0, 1, "Unresolved dependencies: " \o unresolved_deps, FALSE,
                "Dependencies not satisfied: " \o unresolved_deps, FALSE, FALSE)

\* ', '.join(items)
RECURSIVE JoinComma(_)
JoinComma(items) ==
    IF Len(items) = 0 THEN ""
    ELSE IF Len(items) = 1 THEN items[1]
    ELSE items[1] \o ", " \o JoinComma(Tail(items))

(***************************************************************************)
(* Pattern Resolver                                                        *)
(***************************************************************************)
\* os.path.dirname
RECURSIVE LastSlash(_, _)
LastSlash(path, i) ==
    IF i = 0 THEN 0 ELSE IF Char(path, i) = "/" THEN i ELSE LastSlash(path, i - 1)
Dirname(path) ==
    LET head == SubSeq(path, 1, LastSlash(path, Len(path))) IN
    IF head # "" /\ RStripSlash(head) # "" THEN RStripSlash(head) ELSE head

\* the variables of a pattern run, in insertion order: << <<key, value>>, ... >>
PatternVariables(issue_id, fm) ==
    << << "issue_id", issue_id >>,
       << "lane", IF fm.lane.k = "missing" THEN Char(issue_id, 1)
                  ELSE IF fm.lane.k = "null" THEN "None" ELSE fm.lane.v >> >>
    \o (IF Len(fm.target_paths) > 0
        THEN << << "file_path", fm.target_paths[1] >>,
                << "dir_path", IF Dirname(fm.target_paths[1]) # ""
                               THEN Dirname(fm.target_paths[1]) ELSE fm.target_paths[1] >>,
                << "script_path", fm.target_paths[1] >> >>
        ELSE << >>)

RECURSIVE substitute_vars(_, _)
substitute_vars(template, variables) ==
    IF Len(variables) = 0 THEN template
    ELSE substitute_vars(StrReplace(template, "{" \o variables[1][1] \o "}", variables[1][2]),
                         Tail(variables))

\* load_patterns, then the lookups of run_pattern_checks before its loop
PatternChecks(cat, pattern_name) ==
    IF cat.kind = "ok" /\ pattern_name \in DOMAIN cat.patterns
    THEN cat.patterns[pattern_name] ELSE << >>
AllowedChecks(cat, depth) ==
    IF cat.kind = "ok" /\ depth \in DOMAIN cat.depth_levels
    THEN cat.depth_levels[depth]
    ELSE {"existence", "content_validation", "git_tracking"}
CheckType(name) == IF Contains("exist", name) THEN "existence" ELSE "content_validation"
\* Skipped that filters at depth DEEP as at any other depth
Skipped_FiltersDeep(check, allowed_checks, depth) ==
    CheckType(check.name) \notin allowed_checks

Skipped(check, allowed_checks, depth) ==
    CheckType(check.name) \notin allowed_checks /\ depth # "DEEP"

\* PatternResult for a runner that hands the command to the classifier first
PatternResult_Classified(check, command, run) ==
    LET expected == GetInt(check.expected_exit, 0)
        malformed == is_malformed_command(command).malformed
        passed   == run.code = expected /\ ~malformed
    IN CheckResult("pattern", check.name, command, Missing, Missing, expected, run.code,
                   Truncate(run.output, OutputLimit), passed,
                   IF passed THEN ""
                   ELSE IF check.failure_message.k = "str" THEN check.failure_message.v
                   ELSE "",
                   malformed, FALSE)

PatternResult(check, command, run) ==
    LET expected == GetInt(check.expected_exit, 0)
        passed   == run.code = expected
    IN CheckResult("pattern", check.name, command, Missing, Missing, expected, run.code,
                   Truncate(run.output, OutputLimit), passed,
                   IF passed THEN ""
                   ELSE IF check.failure_message.k = "str" THEN check.failure_message.v
                   ELSE "",
                   FALSE, FALSE)

(***************************************************************************)
(* Dependency Gate                                                         *)
(***************************************************************************)
\* find_issue_file: the two candidate paths and the glob name the file of the
\* issue itself (no identifier here is part of another); found or not
find_issue_file(issue_id, fs) == issue_id \in DOMAIN fs /\ fs[issue_id].kind # "absent"

\* parse_frontmatter that gives an empty header where the file has none
parse_frontmatter_AcceptsNoHeader(f) ==
    IF f.kind = "unreadable" THEN "none"
    ELSE IF f.kind = "scalar" THEN "scalar" ELSE "ok"

\* parse_frontmatter: "none" (None or an empty mapping), "scalar", "ok"
parse_frontmatter(f) ==
    IF f.kind \in {"unreadable", "noheader"} THEN "none"
    ELSE IF f.kind = "scalar" THEN "scalar" ELSE "ok"

\* UnresolvedDeps for a gate that takes every dependency it finds to have the
\* status the records had when the batch began (OPEN)
RECURSIVE UnresolvedDeps_FromSnapshot(_, _, _)
UnresolvedDeps_FromSnapshot(depends_on, fs, acc) ==
    IF Len(depends_on) = 0 THEN [raised |-> FALSE, unresolved |-> acc]
    ELSE LET dep_id == Head(depends_on) IN
         IF ~find_issue_file(dep_id, fs)
         THEN UnresolvedDeps_FromSnapshot(Tail(depends_on), fs, Append(acc, dep_id \o " (not found)"))
         ELSE UnresolvedDeps_FromSnapshot(Tail(depends_on), fs, Append(acc, dep_id))

\* the loop over depends_on: [raised, unresolved]
RECURSIVE UnresolvedDeps(_, _, _)
UnresolvedDeps(depends_on, fs, acc) ==
    IF Len(depends_on) = 0 THEN [raised |-> FALSE, unresolved |-> acc]
    ELSE LET dep_id == Head(depends_on) IN
         IF ~find_issue_file(dep_id, fs)
         THEN UnresolvedDeps(Tail(depends_on), fs, Append(acc, dep_id \o " (not found)"))
         ELSE IF parse_frontmatter(fs[dep_id]) = "none"
         THEN UnresolvedDeps(Tail(depends_on), fs, acc)
         ELSE IF parse_frontmatter(fs[dep_id]) = "scalar"
         THEN [raised |-> TRUE, unresolved |-> acc]
         ELSE LET dep_status == Get(fs[dep_id].status, "OPEN") IN
              IF dep_status.k # "str" THEN [raised |-> TRUE, unresolved |-> acc]
              ELSE IF Upper(dep_status.v) # "RESOLVED"
              THEN UnresolvedDeps(Tail(depends_on), fs, Append(acc, dep_id))
              ELSE UnresolvedDeps(Tail(depends_on), fs, acc)

(***************************************************************************)
(* Aggregation                                                             *)
(***************************************************************************)
\* PassedCount that counts every entry
PassedCount_CountsAll(check_results) == Len(check_results)

PassedCount(check_results) ==
    Cardinality({k \in 1..Len(check_results) : check_results[k].passed})

\* Aggregate without the test that at least one check ran
Aggregate_PassesWithoutChecks(check_results, unresolved_deps) ==
    LET checks == IF Len(unresolved_deps) > 0
                  THEN Append(check_results, DependencyResult(JoinComma(unresolved_deps)))
                  ELSE check_results
        passed_count == PassedCount(checks)
        failed_count == Len(checks) - passed_count
    IN [checks |-> checks, passed_count |-> passed_count, failed_count |-> failed_count,
        all_passed |-> failed_count = 0]

\* Aggregate without the recount after the dependency check is appended
Aggregate_NoRecount(check_results, unresolved_deps) ==
    LET checks == IF Len(unresolved_deps) > 0
                  THEN Append(check_results, DependencyResult(JoinComma(unresolved_deps)))
                  ELSE check_results
        passed_count == PassedCount(check_results)
        failed_count == Len(check_results) - passed_count
    IN [checks |-> checks, passed_count |-> passed_count, failed_count |-> failed_count,
        all_passed |-> failed_count = 0 /\ Len(check_results) > 0]

\* Aggregate with the dependency check put in front of the other results
Aggregate_DependencyFirst(check_results, unresolved_deps) ==
    LET checks == IF Len(unresolved_deps) > 0
                  THEN << DependencyResult(JoinComma(unresolved_deps)) >> \o check_results
                  ELSE check_results
        passed_count == PassedCount(checks)
        failed_count == Len(checks) - passed_count
    IN [checks |-> checks, passed_count |-> passed_count, failed_count |-> failed_count,
        all_passed |-> failed_count = 0 /\ Len(checks) > 0]

\* lines 550-570: the counts, and the synthetic dependency check
Aggregate(check_results, unresolved_deps) ==
    LET checks == IF Len(unresolved_deps) > 0
                  THEN Append(check_results, DependencyResult(JoinComma(unresolved_deps)))
                  ELSE check_results
        passed_count == PassedCount(checks)
        failed_count == Len(checks) - passed_count
    IN [checks |-> checks, passed_count |-> passed_count, failed_count |-> failed_count,
        all_passed |-> failed_count = 0 /\ Len(checks) > 0]

\* the three early returns of verify_issue
ErrorResult(issue_id, error) ==
    [kind |-> "error", issue_id |-> issue_id, error |-> error, passed |-> FALSE,
     lane |-> Missing, status |-> Missing, pattern |-> Missing, depth |-> Missing,
     depends_on |-> << >>, unresolved_dependencies |-> << >>, target_paths |-> << >>,
     checks |-> << >>, passed_count |-> 0, failed_count |-> 0, total_checks |-> 0,
     confidence |-> 0, timestamp |-> 0, used_embedded_commands |-> FALSE,
     evidence_error |-> FALSE, status_updated |-> FALSE, update_error |-> FALSE]

\* lines 572-589
OkResult(issue_id, fm, depth, agg, unresolved_deps, now) ==
    [kind |-> "ok", issue_id |-> issue_id, error |-> "", passed |-> agg.all_passed,
     lane |-> Get(fm.lane, ""), status |-> Get(fm.status, "OPEN"),
     pattern |-> Get(fm.verification_pattern, "embedded_commands"),
     depth |-> Get(fm.verification_depth, depth),
     depends_on |-> fm.depends_on, unresolved_dependencies |-> unresolved_deps,
     target_paths |-> fm.target_paths,
     checks |-> agg.checks, passed_count |-> agg.passed_count,
     failed_count |-> agg.failed_count, total_checks |-> Len(agg.checks),
     confidence |-> Confidence(agg.passed_count, Len(agg.checks)),
     timestamp |-> now, used_embedded_commands |-> Len(fm.cmds) > 0,
     evidence_error |-> FALSE, status_updated |-> FALSE, update_error |-> FALSE]

(***************************************************************************)
(* Evidence Store                                                          *)
(***************************************************************************)
\* the evidence file save_evidence writes for a result at time now
EvidencePath(result, now) ==
    [lane_dir |-> EVIDENCE_DIR \o "/" \o Upper(result.lane.v),
     issue_id |-> result.issue_id, timestamp |-> now]

EvidenceData(result) ==
    [issue_id |-> result.issue_id, lane |-> result.lane.v, timestamp |-> result.timestamp,
     all_passed |-> result.passed, passed_checks |-> result.passed_count,
     failed_checks |-> result.failed_count, total_checks |-> result.total_checks,
     confidence_score |-> result.confidence, verification_pattern |-> result.pattern,
     verification_depth |-> result.depth, affected_paths |-> result.target_paths,
     checks |-> result.checks]

\* save_evidence: the store after the write (a file of the same name is replaced)
save_evidence(store, result, now) ==
    (EvidencePath(result, now) :> EvidenceData(result)) @@ store

\* datetime.now().strftime("%Y-%m-%d"), as days since the epoch of the clock
Today(now) == now \div 86400

\* update_issue_verified that writes the file back without its header markers
update_issue_verified_LosesHeader(f, result, now) ==
    [f EXCEPT !.kind = "noheader"]

\* update_issue_verified that also sets the status key to RESOLVED
update_issue_verified_SetsResolved(f, result, now) ==
    [f EXCEPT !.status = Str("RESOLVED"),
              !.date_verified = IntVal(Today(now)),
              !.verification_confidence = IntVal(result.confidence)]

\* update_issue_verified: the issue file after the rewrite; the two keys are
\* appended to a header that does not have the text date_verified: yet
update_issue_verified(f, result, now) ==
    IF f.date_verified.k # "missing" THEN f
    ELSE [f EXCEPT !.date_verified = IntVal(Today(now)),
                   !.verification_confidence = IntVal(result.confidence)]

\* Outcome where a failed evidence write ends the call before the status update
Outcome_EvidenceFailureSkipsUpdate(r0, saved, updates, update_ok) ==
    [r0 EXCEPT !.evidence_error = ~saved,
               !.status_updated = saved /\ updates /\ update_ok,
               !.update_error   = saved /\ updates /\ ~update_ok]

\* lines 591-603: what the two writes leave in the result
Outcome(r0, saved, updates, update_ok) ==
    [r0 EXCEPT !.evidence_error = ~saved,
               !.status_updated = updates /\ update_ok,
               !.update_error   = updates /\ ~update_ok]

(***************************************************************************)
(* Corrector -> Classifier for the commands of the issue files (computed   *)
(* once per command)                                                       *)
(***************************************************************************)
\* lines 477-481: the correction, then the classification of the corrected command
Classify(fix) == [fix |-> fix, bad |-> is_malformed_command(fix.corrected)]
Prepared ==
    [c \in {CmdDir, CmdGood, CmdPlaceholder, CmdShellPath, CmdKill}
            \cup {CommandText(inp) : inp \in CommandInputs} |->
        Classify(auto_correct_command(c))]

(***************************************************************************)
(* State                                                                   *)
(***************************************************************************)
MaxClock == 1

VARIABLES
    files,      \* issue id -> content of issues/G/<id>.md
    catalog,    \* content of tools/verification_patterns.yaml
    evidence,   \* evidence path -> content of the evidence file
    clock,      \* wall clock, in seconds
    proc,       \* the running tool: main() and verify_lane()
    call,       \* the frame of the verify_issue call in progress
    result,     \* what the last verify_issue call returned
    runLog,     \* the calls of run_command by this process, in order: the
                \* command it was handed, the exit code and the output it returned
    signals,    \* run_demo_file_signals.py: lane -> the lane's .status and .done files
    threads,    \* lane -> the frame of the lane's worker thread
    results,    \* the results list the worker threads append to
    demo        \* the frame of the demo's main(), poll_for_completion included

demoVars == << signals, threads, results, demo >>
vars == << files, catalog, evidence, clock, proc, call, result, runLog, signals, threads, results, demo >>

\* the lanes parse_catalog looks for
Lanes == {"E", "M"}

\* the demo script is not running
NoSignal == [status |-> "", done |-> FALSE]
NoThread == [pc |-> "unstarted", issues |-> 0, i |-> 0, issues_fixed |-> 0]
DemoIdle ==
    /\ signals = [lane \in Lanes |-> NoSignal]
    /\ threads = [lane \in Lanes |-> NoThread]
    /\ results = << >>
    /\ demo = [pc |-> "idle", lanes_issues |-> << >>, k |-> 0, done_count |-> 0,
               report |-> << >>, exit_code |-> 0]

NoCall == [pc |-> "none", issue_id |-> "", depth |-> "", update_status |-> FALSE,
           fm |-> IssueFile("absent", Missing, << >>, << >>, ExpNone, Missing, Missing, << >>),
           unresolved_deps |-> << >>, i |-> 0, check_results |-> << >>,
           fm_depth |-> "", variables |-> << >>, checks |-> << >>,
           allowed_checks |-> {}]

NoResult == [ErrorResult("", "") EXCEPT !.kind = "none"]

IdleProc == [state |-> "idle", mode |-> "", queue |-> << >>, update |-> FALSE,
             depth |-> "", all_passed |-> TRUE, stats |-> [total |-> 0, passed |-> 0, failed |-> 0, errors |-> 0], exit_code |-> 0]

\* the full catalog, with a depth policy
FullCatalog == Catalog("ok", "missing_file" :> MissingFileChecks, DepthPolicy)

\* the issue tree: G-00 is varied where G-01 runs its own checks and depends on
\* it, the catalog where G-01 has no embedded checks
Init ==
    /\ \/ /\ files \in [IssueIds -> DependentRecords \cup DepRecords]
          /\ files["G-01"] \in DependentRecords
          /\ files["G-00"] \in DepRecords
          /\ catalog = FullCatalog
       \/ /\ files \in [IssueIds -> EmbeddedRecords \cup {DefaultDep}]
          /\ files["G-01"] \in EmbeddedRecords
          /\ files["G-00"] = DefaultDep
          /\ catalog = FullCatalog
       \/ /\ files \in [IssueIds -> PatternRecords \cup {DefaultDep}]
          /\ files["G-01"] \in PatternRecords
          /\ files["G-00"] = DefaultDep
          /\ catalog \in Catalogs
       \/ /\ files = [id \in IssueIds |->
                         IF id = "G-01"
                         THEN IssueFile("ok", Str("OPEN"), << >>, NoCmds, ExpNone, Missing,
                                        Missing, OnePath)
                         ELSE DefaultDep]
          /\ catalog = DeepOnlyCatalog
    /\ evidence = << >>
    /\ clock = 0
    /\ proc = IdleProc
    /\ call = NoCall
    /\ result = NoResult
    /\ runLog = << >>
    /\ DemoIdle

(***************************************************************************)
(* main and verify_lane                                                    *)
(***************************************************************************)
\* sorted(glob(issues/G/*.md)), as issue identifiers
LaneFiles(fs) == SelectSeq(<< "G-00", "G-01" >>, LAMBDA id : fs[id].kind # "absent")

\* main(): the command line is parsed and the selection made
MainIds(issue_ids, update, depth) ==
    /\ proc.state = "idle"
    /\ proc' = [IdleProc EXCEPT !.state = "running", !.mode = "ids", !.queue = issue_ids,
                                !.update = update, !.depth = depth]
    /\ UNCHANGED << files, catalog, evidence, clock, call, result, runLog, signals, threads, results, demo >>

\* main() with --lane G or --all: verify_lane lists the files of the lane
MainLane(mode, depth) ==
    /\ proc.state = "idle"
    /\ proc' = [IdleProc EXCEPT !.state = "running", !.mode = mode,
                                !.queue = LaneFiles(files), !.depth = depth]
    /\ UNCHANGED << files, catalog, evidence, clock, call, result, runLog, signals, threads, results, demo >>

(***************************************************************************)
(* verify_issue                                                            *)
(***************************************************************************)
Crash ==
    /\ proc' = [proc EXCEPT !.state = "crashed", !.exit_code = 1]
    /\ call' = NoCall

Return(r) ==
    /\ result' = r
    /\ call' = [call EXCEPT !.pc = "returned"]

\* lines 421-471: locate, read, parse; the Dependency Gate; the embedded checks
VerifyStart ==
    /\ proc.state = "running" /\ call.pc = "none" /\ Len(proc.queue) > 0
    /\ LET issue_id == Head(proc.queue)
           found    == find_issue_file(issue_id, files)
           f        == files[issue_id]
           deps     == UnresolvedDeps(f.depends_on, files, << >>)
           frame    == [NoCall EXCEPT !.issue_id = issue_id, !.depth = proc.depth,
                                      !.update_status = proc.update]
       IN
       IF ~found
       THEN /\ result' = ErrorResult(issue_id, "Issue file not found for " \o issue_id)
            /\ call' = [frame EXCEPT !.pc = "returned"]
            /\ UNCHANGED proc
       ELSE IF f.kind = "unreadable"
       THEN /\ result' = ErrorResult(issue_id, "Error reading file")
            /\ call' = [frame EXCEPT !.pc = "returned"]
            /\ UNCHANGED proc
       ELSE IF parse_frontmatter(f) = "none"
       THEN /\ result' = ErrorResult(issue_id, "No frontmatter found")
            /\ call' = [frame EXCEPT !.pc = "returned"]
            /\ UNCHANGED proc
       ELSE IF parse_frontmatter(f) = "scalar" \/ deps.raised
       THEN Crash /\ UNCHANGED result
       ELSE /\ call' = [frame EXCEPT !.pc = IF Len(f.cmds) > 0 THEN "embedded" ELSE "pattern",
                                     !.fm = f, !.unresolved_deps = deps.unresolved, !.i = 1]
            /\ UNCHANGED << proc, result >>
    /\ UNCHANGED << files, catalog, evidence, clock, runLog, signals, threads, results, demo >>

\* lines 475-495: an embedded check whose corrected command is malformed
EmbeddedMalformed ==
    /\ call.pc = "embedded" /\ call.i <= Len(call.fm.cmds)
    /\ \E prep \in {Prepared[call.fm.cmds[call.i].command]} :
          /\ prep.bad.malformed
          /\ call' = [call EXCEPT
                 !.check_results = Append(@, MalformedResult(call.fm.cmds[call.i],
                                                             prep.bad.reason)),
                 !.i = @ + 1]
    /\ UNCHANGED << files, catalog, evidence, clock, proc, result, runLog, signals, threads, results, demo >>

\* lines 475-529: an embedded check that is executed
EmbeddedRun(b) ==
    /\ call.pc = "embedded" /\ call.i <= Len(call.fm.cmds)
    /\ \E prep \in {Prepared[call.fm.cmds[call.i].command]} :
          LET cmd_spec == call.fm.cmds[call.i]
              run      == run_command(b)
              verdict  == EmbeddedPassed(call.fm.expected, cmd_spec, run.code, run.output)
          IN /\ ~prep.bad.malformed
             /\ runLog' = Append(runLog, Ran(prep.fix.corrected, b.how, run))
             /\ IF verdict.raised
                THEN Crash
                ELSE /\ call' = [call EXCEPT
                           !.check_results = Append(@, ExecutedResult(cmd_spec, prep.fix, run,
                                                                     verdict.passed)),
                           !.i = @ + 1]
                     /\ UNCHANGED proc
    /\ UNCHANGED << files, catalog, evidence, clock, result, signals, threads, results, demo >>

\* lines 532-548 and 358-365: the catalog is loaded and the pattern looked up
PatternLoad ==
    /\ call.pc = "pattern"
    /\ LET pattern_name == Get(call.fm.verification_pattern, "missing_file")
           fm_depth     == Get(call.fm.verification_depth, call.depth)
       IN
       IF catalog.kind = "empty"
       THEN Crash
       ELSE /\ call' = [call EXCEPT !.pc = "pattern_run", !.i = 1,
                           !.fm_depth = fm_depth.v,
                           !.variables = PatternVariables(call.issue_id, call.fm),
                           !.checks = PatternChecks(catalog, pattern_name.v),
                           !.allowed_checks = AllowedChecks(catalog, fm_depth.v)]
            /\ UNCHANGED proc
    /\ UNCHANGED << files, catalog, evidence, clock, result, runLog, signals, threads, results, demo >>

\* lines 367-373: a template whose category the depth does not permit
PatternSkip ==
    /\ call.pc = "pattern_run" /\ call.i <= Len(call.checks)
    /\ Skipped(call.checks[call.i], call.allowed_checks, call.fm_depth)
    /\ call' = [call EXCEPT !.i = @ + 1]
    /\ UNCHANGED << files, catalog, evidence, clock, proc, result, runLog, signals, threads, results, demo >>

\* lines 367-393: a template that is run
PatternRun(b) ==
    /\ call.pc = "pattern_run" /\ call.i <= Len(call.checks)
    /\ ~Skipped(call.checks[call.i], call.allowed_checks, call.fm_depth)
    /\ LET check   == call.checks[call.i]
           command == substitute_vars(check.command, call.variables)
           run     == run_command(b)
       IN /\ runLog' = Append(runLog, Ran(command, b.how, run))
          /\ call' = [call EXCEPT
                 !.check_results = Append(@, PatternResult(check, command, run)),
                 !.i = @ + 1]
    /\ UNCHANGED << files, catalog, evidence, clock, proc, result, signals, threads, results, demo >>

\* lines 550-605: aggregate, Dependency Gate entry, evidence, status update
Finish(evidence_ok, update_ok) ==
    /\ \/ call.pc = "embedded" /\ call.i > Len(call.fm.cmds)
       \/ call.pc = "pattern_run" /\ call.i > Len(call.checks)
    /\ \E r0 \in {OkResult(call.issue_id, call.fm, call.depth,
                             Aggregate(call.check_results, call.unresolved_deps),
                             call.unresolved_deps, clock)} :
          LET saved   == evidence_ok /\ r0.lane.k = "str"
              updates == call.update_status /\ r0.passed
          IN /\ evidence' = IF saved THEN save_evidence(evidence, r0, clock) ELSE evidence
             /\ files' = IF updates /\ update_ok
                         THEN [files EXCEPT ![call.issue_id] =
                                   update_issue_verified(@, r0, clock)]
                         ELSE files
             /\ Return(Outcome(r0, saved, updates, update_ok))
    /\ UNCHANGED << catalog, clock, proc, runLog, signals, threads, results, demo >>

\* the caller's loop body after the call: lines 736-749 and 816-818
HandleResult ==
    /\ proc.state = "running" /\ call.pc = "returned"
    /\ proc' = IF proc.mode = "ids"
               THEN [proc EXCEPT !.queue = Tail(@),
                                 !.all_passed = @ /\ result.passed]
               ELSE [proc EXCEPT !.queue = Tail(@),
                        !.stats = [@ EXCEPT
                            !.total  = @ + 1,
                            !.errors = IF result.kind = "error" THEN @ + 1 ELSE @,
                            !.passed = IF result.kind # "error" /\ result.passed
                                       THEN @ + 1 ELSE @,
                            !.failed = IF result.kind # "error" /\ ~result.passed
                                       THEN @ + 1 ELSE @]]
    /\ call' = NoCall
    /\ UNCHANGED << files, catalog, evidence, clock, result, runLog, signals, threads, results, demo >>

\* sys.exit: lines 792, 810, 819
Exit ==
    /\ proc.state = "running" /\ call.pc = "none" /\ Len(proc.queue) = 0
    /\ proc' = [proc EXCEPT !.state = "exited",
                   !.exit_code = IF proc.mode = "ids"
                                 THEN (IF proc.all_passed THEN 0 ELSE 1)
                                 ELSE (IF proc.stats.failed = 0 THEN 0 ELSE 1)]
    /\ UNCHANGED << files, catalog, evidence, clock, call, result, runLog, signals, threads, results, demo >>

\* a second of wall-clock time passes while the checks run (the clock is read
\* when the result is built, so its value then is all that is observed)
Tick ==
    /\ clock < MaxClock
    /\ \/ call.pc = "embedded" /\ call.i > Len(call.fm.cmds)
       \/ call.pc = "pattern_run" /\ call.i > Len(call.checks)
    /\ clock' = clock + 1
    /\ UNCHANGED << files, catalog, evidence, proc, call, result, runLog, signals, threads, results, demo >>

\* the depth option is read by the pattern branch alone: it is varied where an
\* issue has no embedded checks
DepthArgs(fs) ==
    IF \E id \in IssueIds : fs[id].kind = "ok" /\ Len(fs[id].cmds) = 0
    THEN Depths ELSE {"STANDARD"}

Next ==
    \/ \E issue_ids \in { << "G-01" >>, << "G-00", "G-01" >> }, update \in BOOLEAN, depth \in DepthArgs(files) :
           MainIds(issue_ids, update, depth)
    \/ \E mode \in {"lane", "all"}, depth \in DepthArgs(files) : MainLane(mode, depth)
    \/ VerifyStart
    \/ EmbeddedMalformed
    \/ \E b \in Behaviours : EmbeddedRun(b)
    \/ PatternLoad
    \/ PatternSkip
    \/ \E b \in Behaviours : PatternRun(b)
    \/ \E evidence_ok \in BOOLEAN, update_ok \in BOOLEAN : Finish(evidence_ok, update_ok)
    \/ HandleResult
    \/ Exit
    \/ Tick

Spec == Init /\ [][Next]_vars

(***************************************************************************)
(* Aggregation of the checks: claims C1 and C3                             *)
(***************************************************************************)
\* the number of entries of a check list that passed
NumPassed(cs) == Cardinality({k \in 1..Len(cs) : cs[k].passed})

\* C1: in every non-error result of verify_issue, passed is true if and only
\* if total_checks > 0 and every entry of checks passed, the synthetic
\* dependency_check included; passed is false whenever total_checks = 0.
C1_PassedIffEveryCheckPassed ==
    result.kind = "ok" =>
        /\ result.total_checks = Len(result.checks)
        /\ result.passed <=> /\ result.total_checks > 0
                             /\ \A k \in 1..Len(result.checks) : result.checks[k].passed
        /\ result.total_checks = 0 => ~result.passed

\* a passing result over at least one check
C1_Witness ==
    /\ call.pc = "returned" /\ result.kind = "ok"
    /\ result.passed /\ result.total_checks > 0

\* a dependency the Dependency Gate reports: its file is not located, or its
\* header is read and gives a status other than RESOLVED (OPEN where it
\* gives none)
DepReported(d) ==
    \/ d \notin DOMAIN files
    \/ files[d].kind = "absent"
    \/ /\ files[d].kind = "ok"
       /\ \/ files[d].status.k = "missing"
          \/ files[d].status.k = "str" /\ Upper(files[d].status.v) # "RESOLVED"

\* C3: when at least one dependency is unresolved, exactly one synthetic
\* dependency_check entry with passed = false follows the real checks; against
\* the aggregate over the real checks alone, failed_count is one larger,
\* passed_count is the same and total_checks is one larger; passed is false;
\* the entry's message lists every unresolved identifier.
C3_OneDependencyCheckAppended ==
    (/\ call.pc = "returned" /\ result.kind = "ok"
     /\ \E j \in 1..Len(result.depends_on) : DepReported(result.depends_on[j]))
    => LET real == call.check_results
           n    == Len(real)
           last == result.checks[n + 1]
       IN /\ Len(result.checks) = n + 1
          /\ SubSeq(result.checks, 1, n) = real
          /\ \A k \in 1..n : real[k].site # "dependency"
          /\ last.site = "dependency" /\ last.name = "dependency_check"
          /\ ~last.passed
          /\ result.passed_count = NumPassed(real)
          /\ result.failed_count = (n - NumPassed(real)) + 1
          /\ result.total_checks = n + 1
          /\ ~result.passed
          /\ \A j \in 1..Len(result.depends_on) :
                 DepReported(result.depends_on[j])
                 => /\ Contains(result.depends_on[j], last.output)
                    /\ Contains(result.depends_on[j], last.error)

\* every real check passed, two dependencies are unresolved, the result fails
C3_Witness ==
    /\ call.pc = "returned" /\ result.kind = "ok"
    /\ Len(result.unresolved_dependencies) = 2
    /\ Len(call.check_results) > 0
    /\ \A k \in 1..Len(call.check_results) : call.check_results[k].passed
    /\ ~result.passed

(***************************************************************************)
(* Dependency Gate: claim C2                                               *)
(***************************************************************************)
\* a dependency that is located and whose status is RESOLVED
DepResolved(d) ==
    /\ d \in DOMAIN files
    /\ files[d].kind = "ok"
    /\ files[d].status.k = "str"
    /\ Upper(files[d].status.v) = "RESOLVED"

\* C2: whenever verify_issue returns passed = true, every identifier of
\* depends_on names a record that was located and whose status is RESOLVED; a
\* dependency whose record is missing, whose header cannot be read or whose
\* status is anything else prevents a passing result.
C2_PassedOnlyIfDependenciesResolved ==
    (call.pc = "returned" /\ result.kind = "ok" /\ result.passed)
    => \A j \in 1..Len(result.depends_on) : DepResolved(result.depends_on[j])

(***************************************************************************)
(* Embedded checks: claims C4, C5 and C6                                   *)
(***************************************************************************)
\* C4: for an embedded check whose corrected command is classified malformed
\* the Check Runner is not invoked; exactly one result is recorded for it, with
\* passed = false, malformed = true and the malformed sentinel as exit code,
\* and verification continues with the next check.
C4_MalformedNeverRun ==
    [][(/\ call.pc = "embedded" /\ call.i <= Len(call.fm.cmds)
        /\ Prepared[call.fm.cmds[call.i].command].bad.malformed)
       => /\ runLog' = runLog
          /\ call'.pc = "embedded" /\ call'.i = call.i + 1
          /\ call'.fm = call.fm
          /\ Len(call'.check_results) = Len(call.check_results) + 1
          /\ SubSeq(call'.check_results, 1, Len(call.check_results)) = call.check_results
          /\ LET res == call'.check_results[Len(call'.check_results)]
             IN /\ ~res.passed
                /\ res.malformed
                /\ res.actual = MalformedExit
                /\ res.name = call.fm.cmds[call.i].name]_vars

\* a malformed first check was recorded and the second check was then run
C4_Witness ==
    /\ call.pc = "embedded"
    /\ Len(call.check_results) = 2
    /\ call.check_results[1].malformed /\ call.check_results[1].actual = MalformedExit
    /\ call.check_results[2].site = "embedded"
    /\ Len(runLog) = 1

\* C5: the sentinels are unambiguous: run_command never returns the malformed
\* sentinel (-2) for a command that was executed, and never returns the
\* timeout/failure sentinel (-1) for a command that ran to completion.
C5_SentinelsUnambiguous ==
    \A k \in 1..Len(runLog) :
        /\ runLog[k].code # MalformedExit
        /\ runLog[k].how = "exit" => runLog[k].code # RunFailureExit

\* the expected exit code and output token of a check under an Expected
\* Outputs block: the block's entry for the check, 0 and PASS where it gives none
C6_Expected(expected_outputs, cmd_spec) ==
    LET key == "check_" \o SubSeq(cmd_spec.check, Len("Check ") + 1, Len(cmd_spec.check))
        has == expected_outputs.has_results /\ key \in DOMAIN expected_outputs.results
    IN [exit_code |-> IF has /\ expected_outputs.results[key].exit_code.k = "int"
                      THEN expected_outputs.results[key].exit_code.n ELSE 0,
        stdout_contains |-> IF has /\ expected_outputs.results[key].stdout_contains.k = "str"
                            THEN expected_outputs.results[key].stdout_contains.v ELSE "PASS"]

\* the pass rule of the claim, on an exit code and an output text
C6_Rule(expected_outputs, cmd_spec, exit, text) ==
    IF expected_outputs.k = "map"
    THEN /\ exit = C6_Expected(expected_outputs, cmd_spec).exit_code
         /\ Contains(C6_Expected(expected_outputs, cmd_spec).stdout_contains, text)
    ELSE exit = 0 /\ Contains("PASS", text)

\* C6 as stated: for every executed embedded check, passed is true iff the
\* recorded exit code and the recorded output satisfy the pass rule.
C6_PassedByRecordedOutput ==
    call.pc = "embedded" =>
        \A k \in 1..Len(call.check_results) :
            call.check_results[k].site = "embedded"
            => (call.check_results[k].passed
                <=> C6_Rule(call.fm.expected, call.fm.cmds[k],
                            call.check_results[k].actual, call.check_results[k].output))

\* C6 as amended: for every executed embedded check, the recorded exit code is
\* the one run_command returned, the recorded output is the first OutputLimit
\* characters of the output it returned, and passed is true iff that exit code
\* and the whole output satisfy the pass rule.
C6_PassedByFullOutput ==
    [][(/\ call.pc = "embedded" /\ call'.pc = "embedded"
        /\ Len(runLog') = Len(runLog) + 1)
       => LET run == runLog'[Len(runLog')]
              res == call'.check_results[Len(call'.check_results)]
          IN /\ Len(call'.check_results) = Len(call.check_results) + 1
             /\ res.site = "embedded"
             /\ res.actual = run.code
             /\ res.output = SubSeq(run.output, 1, IF Len(run.output) < OutputLimit
                                                   THEN Len(run.output) ELSE OutputLimit)
             /\ res.passed <=> C6_Rule(call.fm.expected, call.fm.cmds[call.i],
                                       run.code, run.output)]_vars

\* a check passed on an output whose PASS token the recorded output cuts off
C6_Witness ==
    /\ call.pc = "embedded"
    /\ \E k \in 1..Len(call.check_results) :
           /\ call.check_results[k].site = "embedded"
           /\ call.check_results[k].passed
           /\ Len(call.check_results[k].output) = OutputLimit
           /\ ~Contains("PASS", call.check_results[k].output)

(***************************************************************************)
(* Confidence: claim C7.  The specification starts verify_issue at the end *)
(* of the embedded loop of an issue with total checks of which             *)
(* passed_count passed, and lets it build its result.                      *)
(***************************************************************************)
MaxTotal == 50

ManyCmds(total) == [k \in 1..total |-> CheckSpec("Check 1", "readme", CmdGood)]

ManyRuns(passed_count, total) ==
    [k \in 1..total |->
        run_command(IF k <= passed_count THEN [how |-> "exit", n |-> 0, out |-> "PASS\n"]
                    ELSE [how |-> "exit", n |-> 1, out |-> "FAIL\n"])]

ManyResults(passed_count, total) ==
    [k \in 1..total |->
        ExecutedResult(ManyCmds(total)[k], Prepared[CmdGood].fix,
                       ManyRuns(passed_count, total)[k], k <= passed_count)]

InitConfidence ==
    \E total \in 1..MaxTotal : \E passed_count \in 0..total :
        LET f == IssueFile("ok", Str("OPEN"), << >>, ManyCmds(total), ExpNone,
                           Missing, Missing, OnePath)
        IN /\ files = [id \in IssueIds |-> IF id = "G-01" THEN f ELSE DefaultDep]
           /\ catalog = FullCatalog
           /\ evidence = << >>
           /\ clock = 0
           /\ proc = [IdleProc EXCEPT !.state = "running", !.mode = "ids",
                                      !.queue = << "G-01" >>, !.depth = "STANDARD"]
           /\ call = [NoCall EXCEPT !.pc = "embedded", !.issue_id = "G-01",
                                    !.depth = "STANDARD", !.fm = f, !.i = total + 1,
                                    !.check_results = ManyResults(passed_count, total)]
           /\ result = NoResult
           /\ runLog = [k \in 1..total |->
                           Ran(Prepared[CmdGood].fix.corrected, "exit",
                               ManyRuns(passed_count, total)[k])]
           /\ DemoIdle

NextConfidence ==
    \E evidence_ok \in BOOLEAN, update_ok \in BOOLEAN : Finish(evidence_ok, update_ok)

SpecConfidence == InitConfidence /\ [][NextConfidence]_vars

\* C7: in every non-error result, confidence is floor(100 * passed_count /
\* total_checks) when total_checks > 0 and 0 when total_checks = 0, for every
\* 0 <= passed_count <= total_checks.
C7_ConfidenceIsFloor ==
    result.kind = "ok" =>
        result.confidence = IF result.total_checks = 0 THEN 0
                            ELSE (100 * result.passed_count) \div result.total_checks

(***************************************************************************)
(* Error handling: claims C8, C9 and C10                                   *)
(***************************************************************************)
\* the issue whose verify_issue call is running, has returned, or has raised
CurrentIssue == Head(proc.queue)

\* the pattern an issue names (missing_file where it names none) is not in the
\* catalog, or there is no catalog file
PatternAbsent(f) ==
    \/ catalog.kind # "ok"
    \/ Get(f.verification_pattern, "missing_file").v \notin DOMAIN catalog.patterns

\* C8: for an issue with no embedded commands whose pattern name is absent
\* from the catalog (or whose catalog file is missing), verify_issue returns a
\* result with total_checks = 0, passed = false and confidence = 0, and runs no
\* command.
C8_AbsentPatternGivesNoChecks ==
    (/\ proc.state \in {"running", "crashed"} /\ Len(proc.queue) > 0
     /\ call.pc = "returned" \/ proc.state = "crashed"
     /\ files[CurrentIssue].kind = "ok"
     /\ Len(files[CurrentIssue].cmds) = 0
     /\ PatternAbsent(files[CurrentIssue]))
    => /\ call.pc = "returned"
       /\ result.kind = "ok"
       /\ result.total_checks = 0
       /\ ~result.passed
       /\ result.confidence = 0
       /\ runLog = << >>

\* C9: verify_issue returns a structured result and never raises, whatever
\* the issue files, dependency files and catalog contain; so a lane or
\* all-issues batch verifies and counts every issue of the batch.
C9_NeverRaises ==
    /\ proc.state # "crashed"
    /\ (proc.state = "exited" /\ proc.mode \in {"lane", "all"})
       => proc.stats.total = Len(LaneFiles(files))

\* C10: when the issue record cannot be located, cannot be read, or its header
\* cannot be parsed, verify_issue returns an error result with passed = false
\* and no checks; no command is executed, no evidence record is written and no
\* issue file is modified.
C10_BadRecordIsErrorWithoutEffect ==
    [][(/\ proc.state = "running" /\ call.pc = "none" /\ Len(proc.queue) > 0
        /\ \/ CurrentIssue \notin DOMAIN files
           \/ files[CurrentIssue].kind \in {"absent", "unreadable", "noheader"})
       => /\ call'.pc = "returned"
          /\ result'.kind = "error"
          /\ result'.issue_id = CurrentIssue
          /\ result'.error # ""
          /\ ~result'.passed
          /\ result'.checks = << >> /\ result'.total_checks = 0
          /\ runLog' = runLog
          /\ evidence' = evidence
          /\ files' = files]_vars

\* verify_issue returned the error result for an issue file without header
C10_Witness ==
    /\ call.pc = "returned"
    /\ result.kind = "error"
    /\ files[call.issue_id].kind = "noheader"
    /\ runLog = << >> /\ evidence = << >>

(***************************************************************************)
(* Persistence: claim C11                                                  *)
(***************************************************************************)
\* C11: a failure of the evidence write or of the status update never changes
\* the verdict: passed, passed_count, failed_count, total_checks and confidence
\* of the returned result are those of the checks alone, the failure shows
\* only as evidence_error / update_error, and a failed evidence write does not
\* keep the status update from being attempted.
C11_WriteFailureKeepsVerdict ==
    [][(/\ call.pc \in {"embedded", "pattern_run"} /\ call'.pc = "returned")
       => LET real  == call.check_results
              total == Len(real) + (IF Len(call.unresolved_deps) > 0 THEN 1 ELSE 0)
          IN /\ result'.kind = "ok" /\ result'.error = ""
             /\ result'.total_checks = total
             /\ result'.passed_count = NumPassed(real)
             /\ result'.failed_count = total - NumPassed(real)
             /\ result'.passed <=> (total > 0 /\ NumPassed(real) = total)
             /\ result'.confidence = Confidence(NumPassed(real), total)
             /\ (call.update_status /\ result'.passed)
                    => (result'.status_updated <=> ~result'.update_error)]_vars

\* the evidence write failed, the result passed and the status update was made
C11_Witness ==
    /\ call.pc = "returned" /\ result.kind = "ok"
    /\ result.evidence_error /\ result.passed /\ result.status_updated
    /\ evidence = << >>
    /\ files[call.issue_id].date_verified.k = "int"

(***************************************************************************)
(* Repeated verification.  The specification runs the tool on two issue    *)
(* identifiers, the same one twice or a dependency and then its dependent, *)
(* with commands that pass or fail.                                        *)
(***************************************************************************)
\* G-01 with a header an earlier run stamped the day before
StampedRecord ==
    [IssueFile("ok", Str("OPEN"), << >>, OneCmd, ExpNone, Missing, Missing, OnePath)
        EXCEPT !.date_verified = IntVal(-1), !.verification_confidence = IntVal(100)]

RepeatRecords ==
    { IssueFile("ok", Str("OPEN"), deps, cmds, ExpNone, Missing, Missing, OnePath) :
          deps \in {<< >>, << "G-00" >>}, cmds \in {OneCmd, BadThenGood} }
    \cup { IssueFile("ok", Str("OPEN"), << >>, NoCmds, ExpNone, Missing, Str("QUICK"), OnePath),
           StampedRecord }

InitRepeat ==
    /\ files \in [IssueIds -> RepeatRecords \cup {DefaultDep}]
    /\ files["G-01"] \in RepeatRecords
    /\ files["G-00"] \in {DefaultDep,
                          IssueFile("ok", Str("OPEN"), << >>, OneCmd, ExpNone, Missing,
                                    Missing, OnePath)}
    /\ catalog = FullCatalog
    /\ evidence = << >>
    /\ clock = 0
    /\ proc = IdleProc
    /\ call = NoCall
    /\ result = NoResult
    /\ runLog = << >>
    /\ DemoIdle

\* a command that passes, a command that fails
RepeatBehaviours == {b \in Behaviours : b.how = "exit" /\ b.out \in {"PASS\n", "FAIL\n"}}

NextRepeat ==
    \/ \E issue_ids \in { << "G-01", "G-01" >>, << "G-00", "G-01" >> }, update \in BOOLEAN :
           MainIds(issue_ids, update, "STANDARD")
    \/ VerifyStart
    \/ EmbeddedMalformed
    \/ \E b \in RepeatBehaviours : EmbeddedRun(b)
    \/ PatternLoad
    \/ PatternSkip
    \/ \E b \in RepeatBehaviours : PatternRun(b)
    \/ \E evidence_ok \in BOOLEAN, update_ok \in BOOLEAN : Finish(evidence_ok, update_ok)
    \/ HandleResult
    \/ Exit
    \/ Tick

SpecRepeat == InitRepeat /\ [][NextRepeat]_vars

(***************************************************************************)
(* Status update: claims C12 and C13                                       *)
(***************************************************************************)
\* the header of f with the two verification keys set
Stamp(f, day, confidence) ==
    [f EXCEPT !.date_verified = IntVal(day), !.verification_confidence = IntVal(confidence)]

\* a step in which verify_issue rewrote the file of the issue it verified
UpdateMade ==
    /\ call.pc \in {"embedded", "pattern_run"} /\ call'.pc = "returned"
    /\ call.update_status /\ result'.passed /\ result'.status_updated

\* C12 as stated: an issue file is modified only when a status update was
\* requested and the aggregate passed; the modification adds the verification
\* date and the confidence value to the header and leaves every other key
\* (status included) and the body unchanged; in every other case the file is
\* as before.
C12_UpdateAddsDateAndConfidence ==
    [][/\ UpdateMade =>
             files' = [files EXCEPT ![call.issue_id] =
                          Stamp(@, Today(clock), result'.confidence)]
       /\ ~UpdateMade => files' = files]_vars

\* C12 as amended: as stated where the header has no date_verified entry yet;
\* where it has one, the update leaves the file content as it was.
C12_UpdateAddsDateOnce ==
    [][/\ (UpdateMade /\ files[call.issue_id].date_verified.k = "missing") =>
             files' = [files EXCEPT ![call.issue_id] =
                          Stamp(@, Today(clock), result'.confidence)]
       /\ (UpdateMade /\ files[call.issue_id].date_verified.k # "missing") =>
             files' = files
       /\ ~UpdateMade => files' = files]_vars

\* the first run stamped a fresh header and the second run's update has left
\* the stamped header alone
C12_Witness ==
    /\ call.pc = "returned" /\ result.kind = "ok" /\ result.status_updated
    /\ proc.queue = << "G-01" >>
    /\ call.issue_id = "G-01" /\ call.fm.date_verified = IntVal(Today(clock))
    /\ files["G-01"] = call.fm

\* C13: after verify_issue with update_status = true returns passed = true
\* without update_error, the persisted status of the issue is RESOLVED, and a
\* later verification of an issue that depends on it does not count it as an
\* unresolved dependency.
C13_UpdateMarksResolved ==
    /\ (/\ call.pc = "returned" /\ result.kind = "ok" /\ call.update_status
        /\ result.passed /\ ~result.update_error)
       => DepResolved(call.issue_id)
    /\ (/\ call.pc = "returned" /\ result.kind = "ok" /\ call.issue_id = "G-01"
        /\ files["G-00"].date_verified.k = "int")
       => \A k \in 1..Len(result.unresolved_dependencies) :
              result.unresolved_dependencies[k] # "G-00"

(***************************************************************************)
(* Exit code: claim C14                                                    *)
(***************************************************************************)
\* C14: in every selection mode (issue identifiers, --lane, --all) the exit
\* code is 0 if and only if every verified issue's result has passed = true;
\* an issue whose verification yields an error result makes it non-zero.
C14_ExitZeroIffAllPassed ==
    proc.state = "exited" =>
        (proc.exit_code = 0
         <=> IF proc.mode = "ids" THEN proc.all_passed
             ELSE proc.stats.passed = proc.stats.total)

(***************************************************************************)
(* Corrector and Classifier: claims C15, C16 and C17.  The specification   *)
(* verifies an issue whose one embedded check is a command of              *)
(* CommandInputs.                                                          *)
(***************************************************************************)
InitCommands ==
    /\ \E inp \in CommandInputs :
          files = [id \in IssueIds |->
                      IF id = "G-01"
                      THEN IssueFile("ok", Str("OPEN"), << >>,
                                     << CheckSpec("Check 1", "input", CommandText(inp)) >>,
                                     ExpNone, Missing, Missing, OnePath)
                      ELSE DefaultDep]
    /\ catalog = FullCatalog
    /\ evidence = << >>
    /\ clock = 0
    /\ proc = IdleProc
    /\ call = NoCall
    /\ result = NoResult
    /\ runLog = << >>
    /\ DemoIdle

NextCommands ==
    \/ MainIds(<< "G-01" >>, FALSE, "STANDARD")
    \/ VerifyStart
    \/ EmbeddedMalformed
    \/ \E b \in RepeatBehaviours : EmbeddedRun(b)
    \/ \E evidence_ok \in BOOLEAN, update_ok \in BOOLEAN : Finish(evidence_ok, update_ok)
    \/ HandleResult
    \/ Exit

SpecCommands == InitCommands /\ [][NextCommands]_vars

\* the inputs whose text is the command of a check that verify_issue has
\* passed through the Corrector and the Classifier
ProcessedInputs ==
    {inp \in CommandInputs :
        \E k \in 1..Len(call.check_results) :
            call.check_results[k].command = CommandText(inp)}

\* C15: for every command that contains a file-existence test (test -f) on a
\* path ending in '/', auto_correct_command returns a command in which that
\* test uses the directory-test flag (test -d), and returns wasCorrected =
\* true, whatever follows the path and whichever other rules fire.
C15_DirectoryTestCorrected ==
    \A inp \in ProcessedInputs :
        (inp.flag = "f" /\ Char(inp.path, Len(inp.path)) = "/")
        => /\ Prepared[CommandText(inp)].fix.was_corrected
           /\ Contains("test -d " \o inp.path, Prepared[CommandText(inp)].fix.corrected)

\* a placeholder token: a name between angle brackets or braces
PlaceholderToken ==
    LET name == RePlus(ReSet(LowerAlpha \cup UpperAlpha \cup {"_", "-"}))
    IN ReAlt(<< ReSeq(<< ReLit("<"), name, ReLit(">") >>),
                ReSeq(<< ReLit("{"), name, ReLit("}") >>) >>)

\* C16: every command that still contains a placeholder token (<brick-id>,
\* {file_path}, <BRICK_ID>) after auto_correct_command is classified
\* malformed by is_malformed_command.
C16_PlaceholderIsMalformed ==
    \A inp \in ProcessedInputs :
        ReSearch(PlaceholderToken, Prepared[CommandText(inp)].fix.corrected).found
        => Prepared[CommandText(inp)].bad.malformed

\* C17: is_malformed_command returns isMalformed = true for every command with
\* a file/directory test whose path argument contains unquoted whitespace, and
\* for every such test whose path's first segment is a shell command name.
C17_BadTestPathIsMalformed ==
    \A inp \in ProcessedInputs :
        (\/ Contains(" ", inp.path) /\ Char(inp.path, 1) # "\""
         \/ BeforeFirst("/", inp.path) \in {"ls", "cat", "grep", "find", "echo", "test",
                                            "python", "python3", "wc"})
        => is_malformed_command(CommandText(inp)).malformed

(***************************************************************************)
(* Evidence Store and repeated runs: claims C18 and C19                    *)
(***************************************************************************)
\* C18: the Evidence Store is append-only: every verify_issue call that gives
\* a non-error result without evidence_error adds one new evidence record for
\* the issue under the directory of the issue's lane, and no run overwrites
\* or removes a record an earlier run wrote.
C18_EvidenceAppendOnly ==
    [][/\ \A p \in DOMAIN evidence : p \in DOMAIN evidence' /\ evidence'[p] = evidence[p]
       /\ (/\ call.pc \in {"embedded", "pattern_run"} /\ call'.pc = "returned"
           /\ ~result'.evidence_error)
          => \E p \in DOMAIN evidence' :
                 /\ p \notin DOMAIN evidence
                 /\ DOMAIN evidence' = DOMAIN evidence \cup {p}
                 /\ p.issue_id = call.issue_id
                 /\ p.lane_dir = EVIDENCE_DIR \o "/G"]_vars

\* the checks of a list that were handed to run_command
Executed(checks) == SelectSeq(checks, LAMBDA c : c.site \in {"embedded", "pattern"})

\* C19: running verify_issue again on the same issue, with the same arguments
\* and with every command returning the exit code and output it returned
\* before, gives the same passed_count, failed_count and confidence as the
\* first run, also when the first run was made with update_status = true and
\* rewrote the issue header.
C19_RerunGivesSameCounts ==
    [][(/\ call.pc # "returned" /\ call'.pc = "returned"
        /\ result.kind = "ok" /\ result.issue_id = call'.issue_id
        /\ LET n1 == Len(Executed(result.checks))
           IN \A k \in 1..(Len(runLog') - n1) :
                  /\ k <= n1
                  /\ runLog'[n1 + k].code = runLog'[k].code
                  /\ runLog'[n1 + k].output = runLog'[k].output)
       => /\ result'.kind = "ok"
          /\ result'.passed_count = result.passed_count
          /\ result'.failed_count = result.failed_count
          /\ result'.confidence = result.confidence
          /\ Len(Executed(result'.checks)) = Len(Executed(result.checks))]_vars

\* the second run of G-01 has returned; the first run passed with
\* update_status = true and stamped the header; both runs passed their check
C19_Witness ==
    /\ call.pc = "returned" /\ proc.queue = << "G-01" >> /\ call.update_status
    /\ call.issue_id = "G-01" /\ call.fm.date_verified.k = "int"
    /\ call.fm.date_verified.n = Today(clock)
    /\ files["G-00"] = DefaultDep
    /\ Len(runLog) = 2 /\ runLog[1].code = 0 /\ runLog[2].code = 0
    /\ result.kind = "ok" /\ result.passed_count = 1 /\ result.confidence = 100

(***************************************************************************)
(* Depth of a pattern run: claim C20                                       *)
(***************************************************************************)
\* the depth the claim has the pattern run use: the depth option of the
\* command line where one is given (--quick, --deep), the record's
\* verification_depth otherwise, STANDARD where it declares none
C20_Depth(depth, fm) ==
    IF depth # "STANDARD" THEN depth ELSE Get(fm.verification_depth, "STANDARD").v

\* C20: for pattern-based verification the depth used to filter the checks is
\* the caller-supplied override depth when one is given and the record's
\* declared verification_depth otherwise; the depth reported in the result is
\* the depth that was used.
C20_OverrideDepthUsed ==
    /\ call.pc = "pattern_run" =>
          /\ call.fm_depth = C20_Depth(call.depth, call.fm)
          /\ call.allowed_checks = AllowedChecks(catalog, C20_Depth(call.depth, call.fm))
    /\ (call.pc = "returned" /\ result.kind = "ok" /\ ~result.used_embedded_commands) =>
          result.depth = Str(C20_Depth(call.depth, call.fm))

(***************************************************************************)
(* Execution of corrected commands: claim C21                              *)
(***************************************************************************)
\* C21: for every embedded check whose command auto_correct_command changes
\* and whose corrected form is not malformed, the command handed to the Check
\* Runner is the corrected command, never the original, and the recorded
\* result keeps the original in 'command', the executed form in
\* 'corrected_command' and was_auto_corrected = true; 'test -f config/ && echo
\* PASS' is executed as 'test -d config/ && echo PASS' and passes when that
\* command exits with 0 and prints PASS.
C21_CorrectedCommandIsExecuted ==
    [][(/\ call.pc = "embedded" /\ call.i <= Len(call.fm.cmds)
        /\ call'.pc = "embedded" /\ call'.i = call.i + 1
        /\ Prepared[call.fm.cmds[call.i].command].fix.was_corrected
        /\ ~Prepared[call.fm.cmds[call.i].command].bad.malformed)
       => LET original == call.fm.cmds[call.i].command
              res      == call'.check_results[Len(call'.check_results)]
              ran      == runLog'[Len(runLog')]
          IN /\ Len(runLog') = Len(runLog) + 1
             /\ ran.command = auto_correct_command(original).corrected
             /\ ran.command # original
             /\ res.command = original
             /\ res.corrected_command = Str(ran.command)
             /\ res.was_auto_corrected
             /\ ~res.malformed
             /\ original = "test -f config/ && echo PASS"
                   => /\ ran.command = "test -d config/ && echo PASS"
                      /\ (ran.code = 0 /\ Contains("PASS", ran.output)) => res.passed]_vars

\* 'test -f config/ && echo PASS' was executed as a directory test and passed
C21_Witness ==
    /\ call.pc = "embedded" /\ Len(call.check_results) = 1 /\ Len(runLog) = 1
    /\ call.check_results[1].command = "test -f config/ && echo PASS"
    /\ runLog[1].command = "test -d config/ && echo PASS"
    /\ call.check_results[1].was_auto_corrected /\ call.check_results[1].passed

(***************************************************************************)
(* Pattern Resolver: claim C22                                             *)
(***************************************************************************)
\* the categories the catalog permits at a depth: its policy for the depth,
\* the default set where it has none
C22_Permitted(depth) ==
    IF catalog.kind = "ok" /\ depth \in DOMAIN catalog.depth_levels
    THEN catalog.depth_levels[depth]
    ELSE {"existence", "content_validation", "git_tracking"}

\* the category of a template, told by its name
C22_Category(name) == IF Contains("exist", name) THEN "existence" ELSE "content_validation"

\* C22: run_pattern_checks runs a check template iff the requested depth is
\* DEEP or the template's category is in the category set the catalog permits
\* at that depth (the default set where the catalog has no policy for the
\* depth); at DEEP every template is run, and a template whose category is
\* not permitted at a non-DEEP depth is never run.
C22_RunIffDeepOrPermitted ==
    [][(call.pc = "pattern_run" /\ call.i <= Len(call.checks))
       => LET check == call.checks[call.i]
              run   == \/ call.fm_depth = "DEEP"
                       \/ C22_Category(check.name) \in C22_Permitted(call.fm_depth)
          IN /\ call'.pc = "pattern_run" /\ call'.i = call.i + 1
             /\ run => /\ Len(runLog') = Len(runLog) + 1
                        /\ Len(call'.check_results) = Len(call.check_results) + 1
                        /\ call'.check_results[Len(call'.check_results)].name = check.name
             /\ ~run => /\ runLog' = runLog
                         /\ call'.check_results = call.check_results]_vars

\* at QUICK the existence template was run and the content template skipped
C22_Witness ==
    /\ call.pc = "pattern_run" /\ call.i = 3 /\ Len(call.checks) = 2
    /\ call.fm_depth = "QUICK" /\ Len(runLog) = 1
    /\ catalog.kind = "ok" /\ "QUICK" \in DOMAIN catalog.depth_levels
    /\ Len(call.check_results) = 1 /\ call.check_results[1].name = "file_exists"

\* at DEEP both templates were run though the policy for DEEP permits one
C22_DeepRunsAll ==
    /\ call.pc = "pattern_run" /\ call.i = 3 /\ Len(call.checks) = 2
    /\ call.fm_depth = "DEEP" /\ Len(runLog) = 2
    /\ catalog = DeepOnlyCatalog

(***************************************************************************)
(* verify_issue: claim C23                                                 *)
(***************************************************************************)
\* C23: within one verify_issue call the two check sources are mutually
\* exclusive: with at least one embedded check the pattern catalog is never
\* loaded and no pattern-derived command is run; with none, only
\* pattern-derived commands are run, each handed to the Check Runner as
\* substituted, neither corrected nor classified; used_embedded_commands in
\* the result tells which branch was taken.
C23_SourcesExclusive ==
    [][/\ call'.pc \in {"pattern", "pattern_run"} => Len(call'.fm.cmds) = 0
       /\ call'.pc = "embedded" => (Len(call'.fm.cmds) > 0 /\ call'.checks = << >>)
       /\ (runLog' # runLog /\ Len(call.fm.cmds) > 0)
             => /\ call.pc = "embedded" /\ call.checks = << >>
                /\ runLog'[Len(runLog')].command
                      = Prepared[call.fm.cmds[call.i].command].fix.corrected
                /\ call'.pc = "embedded"
                      => call'.check_results[Len(call'.check_results)].site = "embedded"
       /\ (runLog' # runLog /\ Len(call.fm.cmds) = 0)
             => LET ran == runLog'[Len(runLog')]
                    res == call'.check_results[Len(call'.check_results)]
                IN /\ call.pc = "pattern_run"
                   /\ ran.command = substitute_vars(call.checks[call.i].command,
                                         PatternVariables(call.issue_id, call.fm))
                   /\ res.site = "pattern" /\ res.command = ran.command
                   /\ ~res.malformed /\ ~res.was_auto_corrected
                   /\ res.corrected_command = Missing
                   /\ res.passed = (ran.code = res.expected)
       /\ (call'.pc = "returned" /\ result'.kind = "ok")
             => result'.used_embedded_commands = (Len(call'.fm.cmds) > 0)]_vars

\* a pattern-derived command the classifier calls malformed has been run, and
\* its check passed
C23_Witness ==
    /\ call.pc = "pattern_run" /\ Len(call.fm.cmds) = 0 /\ Len(runLog) = 1
    /\ runLog[1].command = "test -f {file_path}"
    /\ Prepared["test -f {file_path}"].bad.malformed
    /\ Len(call.check_results) = 1
    /\ call.check_results[1].passed /\ ~call.check_results[1].malformed

(***************************************************************************)
(* verify_issue: claim C24                                                 *)
(***************************************************************************)
\* the templates among the first n of the catalog's list that the depth lets run
C24_RunOf(c, n) ==
    SelectSeq(SubSeq(c.checks, 1, n),
              LAMBDA t : c.fm_depth = "DEEP" \/ C22_Category(t.name) \in c.allowed_checks)

\* the results have the names of the checks, in the same order
C24_SameNames(entries, checks) ==
    /\ Len(entries) = Len(checks)
    /\ \A k \in 1..Len(checks) : entries[k].name = checks[k].name

\* C24: within one verify_issue call the checks are processed one after
\* another in the order of the issue record (or of the pattern catalog): a
\* check is not started before the one before it has produced its result,
\* exactly one result is produced per embedded check, the results list has
\* the order of the checks, and the synthetic dependency_check result, when
\* present, is the last entry.
C24_ChecksInOrder ==
    [][/\ call'.pc = "embedded"
             => /\ C24_SameNames(call'.check_results, SubSeq(call'.fm.cmds, 1, call'.i - 1))
                /\ \A k \in 1..Len(call'.check_results) :
                       call'.check_results[k].site \in {"embedded", "malformed"}
       /\ call'.pc = "pattern_run"
             => C24_SameNames(call'.check_results, C24_RunOf(call', call'.i - 1))
       /\ runLog' # runLog
             => /\ Len(runLog') = Len(runLog) + 1
                /\ call.pc = "embedded" => Len(call.check_results) = call.i - 1
                /\ call.pc = "pattern_run"
                      => Len(call.check_results) = Len(C24_RunOf(call, call.i - 1))
                /\ call'.pc \in {"embedded", "pattern_run"}
                      => /\ call'.i = call.i + 1
                         /\ Len(call'.check_results) = Len(call.check_results) + 1
       /\ (call'.pc = "returned" /\ result'.kind = "ok")
             => LET own == call'.check_results
                    all == result'.checks
                IN /\ SubSeq(all, 1, Len(own)) = own
                   /\ Len(call'.fm.cmds) > 0 => C24_SameNames(own, call'.fm.cmds)
                   /\ \A k \in 1..Len(own) : own[k].site # "dependency"
                   /\ IF Len(result'.unresolved_dependencies) > 0
                      THEN /\ Len(all) = Len(own) + 1
                           /\ all[Len(all)].name = "dependency_check"
                           /\ all[Len(all)].site = "dependency"
                      ELSE all = own]_vars

\* a result with the entry of the record's check first and dependency_check last
C24_Witness ==
    /\ call.pc = "returned" /\ result.kind = "ok" /\ Len(result.checks) = 2
    /\ result.checks[1].name = call.fm.cmds[1].name /\ result.checks[1].site = "embedded"
    /\ result.checks[2].name = "dependency_check"

\* a result with the entries of two embedded checks, in the record's order
C24_TwoInOrder ==
    /\ call.pc = "returned" /\ result.kind = "ok" /\ call.fm.cmds = BadThenGood
    /\ Len(result.checks) = 2
    /\ result.checks[1].name = "brick status" /\ result.checks[1].malformed
    /\ result.checks[2].name = "readme" /\ result.checks[2].site = "embedded"

(***************************************************************************)
(* A batch during which the issue files are edited.  G-01 depends on G-00; *)
(* while the tool works through the batch, the status line of an issue     *)
(* file is rewritten by its owner (an editor, another tool).               *)
(***************************************************************************)
BatchRecords ==
    { IssueFile("ok", Str("OPEN"), deps, OneCmd, ExpNone, Missing, Missing, OnePath) :
          deps \in {<< "G-00" >>, << "G-00", "G-02" >>} }

InitBatch ==
    /\ files \in [IssueIds -> BatchRecords
                       \cup {IssueFile("ok", Str("OPEN"), << >>, OneCmd, ExpNone, Missing,
                                       Missing, OnePath)}]
    /\ files["G-01"] \in BatchRecords
    /\ files["G-00"].depends_on = << >>
    /\ catalog = FullCatalog
    /\ evidence = << >>
    /\ clock = 0
    /\ proc = IdleProc
    /\ call = NoCall
    /\ result = NoResult
    /\ runLog = << >>
    /\ DemoIdle

\* the status line of an issue file is rewritten while the batch runs
EditStatus(issue_id, status) ==
    /\ proc.state = "running"
    /\ files[issue_id].status # Str(status)
    /\ files' = [files EXCEPT ![issue_id].status = Str(status)]
    /\ UNCHANGED << catalog, evidence, clock, proc, call, result, runLog, signals, threads, results, demo >>

NextBatch ==
    \/ \E update \in BOOLEAN : MainIds(<< "G-00", "G-01" >>, update, "STANDARD")
    \/ \E mode \in {"lane", "all"} : MainLane(mode, "STANDARD")
    \/ VerifyStart
    \/ \E b \in RepeatBehaviours : EmbeddedRun(b)
    \/ \E evidence_ok \in BOOLEAN, update_ok \in BOOLEAN : Finish(evidence_ok, update_ok)
    \/ HandleResult
    \/ Exit
    \/ \E status \in {"OPEN", "RESOLVED"} : EditStatus("G-00", status)

SpecBatch == InitBatch /\ [][NextBatch]_vars

(***************************************************************************)
(* Dependency Gate: claim C25                                              *)
(***************************************************************************)
\* the dependencies of a record that the issue files hold as not RESOLVED now
C25_UnresolvedNow(depends_on) ==
    LET open == SelectSeq(depends_on,
                          LAMBDA d : d \notin IssueIds \/ files[d].status # Str("RESOLVED"))
    IN [k \in 1..Len(open) |->
           IF open[k] \in IssueIds THEN open[k] ELSE open[k] \o " (not found)"]

\* C25: in a batch the Dependency Gate of each issue reads the dependency's
\* status from its persisted record at the time that issue is verified, never
\* from a snapshot taken earlier in the batch: a dependency whose record was
\* changed to RESOLVED (or back to OPEN) before the dependent's verification
\* starts is reported accordingly in the dependent's unresolved_dependencies.
C25_GateReadsCurrentStatus ==
    [][/\ (call.pc = "none" /\ call'.pc = "embedded")
             => call'.unresolved_deps = C25_UnresolvedNow(files[call'.issue_id].depends_on)
       /\ (call.pc = "embedded" /\ call'.pc = "returned")
             => result'.unresolved_dependencies = call.unresolved_deps]_vars

\* G-00 was OPEN when the batch began and is RESOLVED when G-01 is verified:
\* the result of G-01 reports no unresolved dependency and passes
C25_Witness ==
    /\ call.pc = "returned" /\ call.issue_id = "G-01" /\ result.kind = "ok"
    /\ result.depends_on = << "G-00" >>
    /\ result.unresolved_dependencies = << >> /\ result.passed

(***************************************************************************)
(* scripts/run_demo_file_signals.py: the lane worker threads and the       *)
(* polling orchestrator.  Every read and write of a signal file is a step  *)
(* of its own, so that the threads interleave between any two of them.     *)
(***************************************************************************)
verifierVars == << files, catalog, evidence, clock, proc, call, result, runLog >>

\* the most open issues a lane of the catalog has
MaxIssues == 2
\* the catalog has no section for the lane
NoSection == -1

\* what parse_catalog returns: the lanes that have a section, E before M, each
\* with the number of its open issues
DemoCatalogs ==
    { SelectSeq(<< [lane |-> "E", issues |-> e], [lane |-> "M", issues |-> m] >>,
                LAMBDA r : r.issues # NoSection) :
          e \in {NoSection} \cup 0..MaxIssues, m \in {NoSection} \cup 0..MaxIssues }

\* AllDone that is content with the .done file of one lane
AllDone_AnyLane(done_count, lanes) == done_count >= 1 \/ Len(lanes) = 0

\* poll_for_completion's test on the count of .done files it has seen
AllDone(done_count, lanes) == done_count = Len(lanes)

\* the signal files a previous run left behind are still there
InitDemo ==
    /\ files = [id \in IssueIds |-> DefaultDep]
    /\ catalog = FullCatalog
    /\ evidence = << >>
    /\ clock = 0
    /\ proc = IdleProc
    /\ call = NoCall
    /\ result = NoResult
    /\ runLog = << >>
    /\ signals \in [Lanes -> {NoSignal, [status |-> "COMPLETE", done |-> TRUE]}]
    /\ threads = [lane \in Lanes |-> NoThread]
    /\ results = << >>
    /\ demo = [pc |-> "idle", lanes_issues |-> << >>, k |-> 0, done_count |-> 0,
               report |-> << >>, exit_code |-> 0]

\* main(): the catalog file does not exist
DemoNoCatalog ==
    /\ demo.pc = "idle"
    /\ demo' = [demo EXCEPT !.pc = "exited", !.exit_code = 1]
    /\ UNCHANGED << verifierVars, signals, threads, results >>

\* main(): clean_signals, parse_catalog, results = []
DemoStart(lanes_issues) ==
    /\ demo.pc = "idle"
    /\ signals' = [lane \in Lanes |-> NoSignal]
    /\ results' = << >>
    /\ demo' = [demo EXCEPT !.pc = IF Len(lanes_issues) = 0 THEN "poll" ELSE "spawn",
                            !.lanes_issues = lanes_issues, !.k = 1]
    /\ UNCHANGED << verifierVars, threads >>

\* main(): one pass of the loop that creates and starts the worker threads
Spawn ==
    /\ demo.pc = "spawn"
    /\ LET li == demo.lanes_issues[demo.k] IN
       threads' = [threads EXCEPT ![li.lane] = [pc |-> "start", issues |-> li.issues,
                                                i |-> 1, issues_fixed |-> 0]]
    /\ demo' = IF demo.k = Len(demo.lanes_issues)
               THEN [demo EXCEPT !.pc = "poll", !.k = 1, !.done_count = 0]
               ELSE [demo EXCEPT !.k = @ + 1]
    /\ UNCHANGED << verifierVars, signals, results >>

\* simulate_lane_worker: the starting status
WorkerStart(lane) ==
    /\ threads[lane].pc = "start"
    /\ signals' = [signals EXCEPT ![lane].status = "STARTING"]
    /\ threads' = [threads EXCEPT ![lane].pc = IF threads[lane].issues = 0
                                               THEN "complete" ELSE "assess"]
    /\ UNCHANGED << verifierVars, results, demo >>

\* simulate_lane_worker: the status after the complexity assessment
WorkerAssess(lane) ==
    /\ threads[lane].pc = "assess"
    /\ signals' = [signals EXCEPT ![lane].status = "NORMAL"]
    /\ threads' = [threads EXCEPT ![lane].pc = "fix"]
    /\ UNCHANGED << verifierVars, results, demo >>

\* simulate_lane_worker: one pass of the loop over the issues.  The issue
\* file is missing (continue), a file operation raises (the thread ends), or
\* the issue is fixed and the status rewritten
WorkerFix(lane, outcome) ==
    /\ threads[lane].pc = "fix" /\ threads[lane].i <= threads[lane].issues
    /\ CASE outcome = "missing" ->
              /\ threads' = [threads EXCEPT ![lane].i = @ + 1]
              /\ UNCHANGED signals
         [] outcome = "raise" ->
              /\ threads' = [threads EXCEPT ![lane].pc = "dead"]
              /\ UNCHANGED signals
         [] outcome = "fixed" ->
              /\ threads' = [threads EXCEPT ![lane].i = @ + 1, ![lane].issues_fixed = @ + 1]
              /\ signals' = [signals EXCEPT ![lane].status = "WORKING"]
    /\ UNCHANGED << verifierVars, results, demo >>

\* simulate_lane_worker: the final status
WorkerComplete(lane) ==
    /\ \/ threads[lane].pc = "complete"
       \/ threads[lane].pc = "fix" /\ threads[lane].i > threads[lane].issues
    /\ signals' = [signals EXCEPT ![lane].status = "COMPLETE"]
    /\ threads' = [threads EXCEPT ![lane].pc = "touch"]
    /\ UNCHANGED << verifierVars, results, demo >>

\* simulate_lane_worker: the .done file
WorkerTouchDone(lane) ==
    /\ threads[lane].pc = "touch"
    /\ signals' = [signals EXCEPT ![lane].done = TRUE]
    /\ threads' = [threads EXCEPT ![lane].pc = "append"]
    /\ UNCHANGED << verifierVars, results, demo >>

\* worker_thread: the result is appended under results_lock, the thread ends
WorkerAppend(lane) ==
    /\ threads[lane].pc = "append"
    /\ results' = Append(results, [lane |-> lane, issues_found |-> threads[lane].issues,
                                   issues_fixed |-> threads[lane].issues_fixed])
    /\ threads' = [threads EXCEPT ![lane].pc = "finished"]
    /\ UNCHANGED << verifierVars, signals, demo >>

\* poll_for_completion: one exists() of the sum over the lanes
PollExists ==
    /\ demo.pc = "poll" /\ demo.k <= Len(demo.lanes_issues)
    /\ demo' = [demo EXCEPT !.k = @ + 1,
                   !.done_count = IF signals[demo.lanes_issues[demo.k].lane].done
                                  THEN @ + 1 ELSE @]
    /\ UNCHANGED << verifierVars, signals, threads, results >>

\* poll_for_completion: the test of the count; True is returned or the loop sleeps
PollTest ==
    /\ demo.pc = "poll" /\ demo.k > Len(demo.lanes_issues)
    /\ demo' = IF AllDone(demo.done_count, demo.lanes_issues)
               THEN [demo EXCEPT !.pc = "join", !.k = 1]
               ELSE [demo EXCEPT !.pc = "sleep"]
    /\ UNCHANGED << verifierVars, signals, threads, results >>

\* poll_for_completion: after the sleep the timeout has not passed
PollAgain ==
    /\ demo.pc = "sleep"
    /\ demo' = [demo EXCEPT !.pc = "poll", !.k = 1, !.done_count = 0]
    /\ UNCHANGED << verifierVars, signals, threads, results >>

\* poll_for_completion: the timeout has passed, False is returned, main returns 1
PollTimeout ==
    /\ demo.pc = "sleep"
    /\ demo' = [demo EXCEPT !.pc = "exited", !.exit_code = 1]
    /\ UNCHANGED << verifierVars, signals, threads, results >>

\* main(): t.join() returns when the thread has ended
Join ==
    /\ demo.pc = "join" /\ demo.k <= Len(demo.lanes_issues)
    /\ threads[demo.lanes_issues[demo.k].lane].pc \in {"finished", "dead"}
    /\ demo' = [demo EXCEPT !.k = @ + 1]
    /\ UNCHANGED << verifierVars, signals, threads, results >>

\* main(): generate_report(results, repo_root), then return 0
GenerateReport ==
    /\ demo.pc = "join" /\ demo.k > Len(demo.lanes_issues)
    /\ demo' = [demo EXCEPT !.pc = "exited", !.report = results, !.exit_code = 0]
    /\ UNCHANGED << verifierVars, signals, threads, results >>

NextDemo ==
    \/ DemoNoCatalog
    \/ \E lanes_issues \in DemoCatalogs : DemoStart(lanes_issues)
    \/ Spawn
    \/ \E lane \in Lanes : WorkerStart(lane)
    \/ \E lane \in Lanes : WorkerAssess(lane)
    \/ \E lane \in Lanes, outcome \in {"missing", "raise", "fixed"} : WorkerFix(lane, outcome)
    \/ \E lane \in Lanes : WorkerComplete(lane)
    \/ \E lane \in Lanes : WorkerTouchDone(lane)
    \/ \E lane \in Lanes : WorkerAppend(lane)
    \/ PollExists
    \/ PollTest
    \/ PollAgain
    \/ PollTimeout
    \/ Join
    \/ GenerateReport

SpecDemo == InitDemo /\ [][NextDemo]_vars

(***************************************************************************)
(* File-signal demo: claim C26                                             *)
(***************************************************************************)
\* the lanes of the run, as poll_for_completion is given them
C26_Lanes == { demo.lanes_issues[k].lane : k \in 1..Len(demo.lanes_issues) }

\* C26: in the file-signal demo, under every interleaving of the lane worker
\* threads and the polling orchestrator, poll_for_completion returns True only
\* when every lane's .done file exists, a lane's .done file is created only
\* after that worker has written its final COMPLETE status, and
\* generate_report is called only after all worker threads have been joined,
\* so that the results list it receives holds exactly one entry per lane.
C26_SignalsOrdered ==
    [][/\ (demo.pc = "poll" /\ demo'.pc = "join")
             => \A lane \in C26_Lanes : signals[lane].done
       /\ \A lane \in Lanes :
             /\ (~signals[lane].done /\ signals'[lane].done)
                   => /\ signals[lane].status = "COMPLETE"
                      /\ threads[lane].pc = "touch" /\ threads'[lane].pc = "append"
             /\ (signals[lane].done /\ demo.pc # "idle")
                   => (signals'[lane].done /\ signals'[lane].status = "COMPLETE")
       /\ (demo.pc = "join" /\ demo'.pc = "exited")
             => /\ \A lane \in C26_Lanes : threads[lane].pc \in {"finished", "dead"}
                /\ demo'.report = results
                /\ Len(demo'.report) = Cardinality(C26_Lanes)
                /\ \A lane \in C26_Lanes :
                       Cardinality({k \in 1..Len(demo'.report) :
                                       demo'.report[k].lane = lane}) = 1]_vars

\* the report was generated from one entry per lane, lane M having finished
\* before lane E, which was started first
C26_Witness ==
    /\ demo.pc = "exited" /\ demo.exit_code = 0
    /\ Len(demo.report) = 2
    /\ demo.report[1].lane = "M" /\ demo.report[2].lane = "E"
    /\ demo.report[2].issues_fixed = 2
    /\ \A lane \in Lanes : signals[lane].done /\ signals[lane].status = "COMPLETE"

(***************************************************************************)
(* Check Runner: claim C27                                                 *)
(***************************************************************************)
\* C27: no command handed to run_command by verify_issue contains an
\* unsubstituted placeholder token ({name} or <name>), whether it comes from
\* an embedded check or from a pattern template, also when the issue has no
\* target paths and file_path, dir_path and script_path have no binding.
C27_NoPlaceholderIsRun ==
    \A k \in 1..Len(runLog) : ~ReSearch(PlaceholderToken, runLog[k].command).found

(***************************************************************************)
(* Command Corrector: claim C28                                            *)
(***************************************************************************)
\* C28: auto_correct_command reaches a fixed point in one pass: for every
\* input command c, applying auto_correct_command to the command it returned
\* for c leaves that command unchanged and returns wasCorrected = false.
C28_OnePassFixedPoint ==
    \A inp \in ProcessedInputs :
        LET once == Prepared[CommandText(inp)].fix.corrected
        IN /\ auto_correct_command(once).corrected = once
           /\ ~auto_correct_command(once).was_corrected

(***************************************************************************)
(* Aggregation: claim C29                                                  *)
(***************************************************************************)
\* C29: in every non-error result returned by verify_issue, passed_count +
\* failed_count = total_checks = the number of entries in checks,
\* passed_count is the number of entries with passed = true, 0 <= confidence
\* <= 100, and (when total_checks > 0) confidence = 100 iff passed = true.
C29_CountsConsistent ==
    result.kind = "ok"
    => /\ result.passed_count + result.failed_count = result.total_checks
       /\ result.total_checks = Len(result.checks)
       /\ result.passed_count
             = Cardinality({k \in 1..Len(result.checks) : result.checks[k].passed})
       /\ 0 <= result.confidence /\ result.confidence <= 100
       /\ result.total_checks > 0 => ((result.confidence = 100) <=> result.passed)

\* a result of one passed check and the failed dependency check
C29_Witness ==
    /\ result.kind = "ok" /\ result.total_checks = 2
    /\ result.checks[1].passed /\ result.checks[2].site = "dependency"
    /\ result.passed_count = 1 /\ result.failed_count = 1
    /\ result.confidence = 50 /\ ~result.passed

\* a result whose checks all passed
C29_AllPassed ==
    /\ result.kind = "ok" /\ result.total_checks = 2 /\ result.passed_count = 2
    /\ result.confidence = 100 /\ result.passed

(***************************************************************************)
(* Check results: claim C30                                                *)
(***************************************************************************)
\* C30: for every executed embedded check, the expected exit code recorded in
\* the result ('expected') is the expected exit code that was compared with
\* the actual exit code to decide passed, so that passed = true implies
\* recorded expected = recorded actual.
C30_RecordedExpectedIsCompared ==
    \A k \in 1..Len(call.check_results) :
        LET res == call.check_results[k] IN
        (call.pc \in {"embedded", "returned"} /\ res.site = "embedded")
        => /\ res.expected = C6_Expected(call.fm.expected, call.fm.cmds[k]).exit_code
           /\ res.passed => res.expected = res.actual

====
